---------------------------- MODULE Spec2Model ----------------------------
(***************************************************************************)
(* A model of the message grouping / duplicate-aware action detection      *)
(* pipeline of juta-actions-server: MessageGrouper (src/messageGrouper.js),*)
(* the confidence selection of AIProcessor (src/aiProcessor.js) and the    *)
(* hourly sweep armed by SessionManager (src/sessionManager.js).           *)
(*                                                                         *)
(* Time is in milliseconds (Date.now()); message timestamps are in epoch   *)
(* seconds, as the code has them (it multiplies by 1000 where it compares).*)
(* A text (message body, action description) is the sequence of its        *)
(* space-separated lowercase words.                                        *)
(***************************************************************************)
EXTENDS Integers, Sequences, FiniteSets, TLC

VARIABLES
  now,                \* Date.now(), ms
  nextId,             \* the id of the next message; its timer and its forced flush take the same number
  ticks,              \* number of clock advances so far (bounded)
  messageBuffer,      \* userId -> (chatId -> messages[])
  processingTimers,   \* bufferKey -> timer handle
  liveTimers,         \* the armed timeouts of the event loop: [id, user, chat, deadline]
  flights,            \* processGroupedMessages invocations suspended at an await
  nextCleanup,        \* when the hourly setInterval next calls cleanup()
  drained,            \* ids of the messages handed to a batch so far, in drain order
  sinceDrain,         \* bufferKey -> ids ingested since the previous drain of the key
  sinceReset,         \* the same, emptied also when a sweep deletes the key's buffer
  conversationHistory, \* `${userId}-${chatId}` -> the actions accepted there, newest first
  duplicateTracker,   \* userId -> Set(action signatures), in insertion order
  groupTopicTracker,  \* chatId -> (topicKey -> {users, actions, lastUpdate, type, description})
  aiActions,          \* the rows of table ai_actions, in insertion order
  emitted,            \* the 'newAction' events given to emitToUser, in order
  notified,           \* the calls of sendActionNotification, in order
  runLog,             \* what became of each run processed so far, in order
  actionStatus,       \* action_id -> the status an UPDATE of ai_actions has written
  internalItems,      \* the rows of the internal_* tables, in insertion order
  decisionLog,        \* the approve and reject requests answered so far, in order
  gIn, gOut, gPc,     \* groupMessagesByTimeAndSender: input batch, returned runs, position
  cIn, cOut, cPc,     \* confidence selection: candidate list, returned list, position
  kIn, kOut, kPc,     \* processMessageWithHistory: message and gateway outcome, result
  mIn, mOut, mPc,     \* createCombinedMessage: the run, the message returned, position
  fIn, fOut, fPc,     \* one function of the guard or the tracker called on its own
  exited              \* the uncaughtException handler has called process.exit

vars == << now, nextId, ticks, messageBuffer, processingTimers, liveTimers, flights,
           nextCleanup, drained, sinceDrain, sinceReset, conversationHistory,
           duplicateTracker, groupTopicTracker, aiActions, emitted, notified, runLog,
           actionStatus, internalItems, decisionLog,
           gIn, gOut, gPc, cIn, cOut, cPc, kIn, kOut, kPc, mIn, mOut, mPc,
           fIn, fOut, fPc, exited >>

bufferVars == << now, nextId, ticks, messageBuffer, processingTimers, liveTimers,
                 flights, nextCleanup, drained, sinceDrain, sinceReset, exited >>
cacheVars == << conversationHistory, duplicateTracker, groupTopicTracker >>
storeVars == << aiActions, emitted, notified, runLog >>
groupVars == << gIn, gOut, gPc >>
selectVars == << cIn, cOut, cPc >>
classifyVars == << kIn, kOut, kPc >>
combineVars == << mIn, mOut, mPc >>
callVars == << fIn, fOut, fPc >>
decisionVars == << actionStatus, internalItems, decisionLog >>

-----------------------------------------------------------------------------
(* Configuration of MessageGrouper's constructor and the literals of its code *)

GROUP_DELAY_MS == 15000
MAX_GROUP_SIZE == 5
SAME_SENDER_GAP_MS == 300000
BUFFER_STALE_MS == 3600000
CLEANUP_INTERVAL_MS == 3600000
CONFIDENCE_FLOOR == 70          \* 0.7, confidences are in hundredths
CONVERSATION_MEMORY_MS == 86400000      \* CONVERSATION_MEMORY_HOURS = 24
DUPLICATE_SIMILARITY_THRESHOLD == 80    \* 0.8, in hundredths
GROUP_TOPIC_SIMILARITY_THRESHOLD == 70  \* 0.7, in hundredths
GROUP_TOPIC_TIMEOUT_MS == 21600000      \* GROUP_TOPIC_TIMEOUT_HOURS = 6
RECENT_DISCUSSION_MS == 7200000         \* hoursSinceLastAction < 2
MIN_WORD_LENGTH == 2            \* word.length > 2
SIGNATURE_WORDS == 3            \* .slice(0, 3) of createActionSignature
KEYWORD_CAP == 10               \* .slice(0, 10) of extractTopicKeywords
TOPIC_KEY_WORDS == 3            \* .slice(0, 3) of updateGroupTopicTracker
TOPIC_ROW_LIMIT == 15           \* LIMIT 15 of loadGroupTopicContext
SENDER_HISTORY_LIMIT == 5       \* LIMIT 5 of loadConversationHistoryForSender
RECENT_ACTIONS == 5             \* conversationHistory.slice(0, 5)
HISTORY_CAP == 20               \* history.splice(20)
SIGNATURE_CAP == 50             \* signatures.size > 50
SIGNATURE_KEEP == 30            \* .slice(-30)

(* Bounds of the model *)
MaxMsgs == 5                    \* messages ingested in one behaviour
MaxTicks == 5                   \* clock advances in one behaviour
MaxBatch == 3                   \* length of the batches given to the grouper
MaxCands == 3                   \* length of the candidate lists given to the selection

Null == "null"                  \* JavaScript's null / undefined
T0 == 7200000                   \* Date.now() when the model starts (2 h after the epoch)
TICK_MS == 10000                \* the clock's step, cut short at the next timer deadline

Range(s) == { s[i] : i \in DOMAIN s }
Take(s, n) == SubSeq(s, 1, IF n < Len(s) THEN n ELSE Len(s))
TakeLast(s, n) == SubSeq(s, IF Len(s) > n THEN Len(s) - n + 1 ELSE 1, Len(s))
Reverse(s) == [i \in 1..Len(s) |-> s[Len(s) + 1 - i]]

-----------------------------------------------------------------------------
(* SenderGrouper: groupMessagesByTimeAndSender                              *)

\* (no sorting: the message put at the end)
InsertAtEnd(sorted, m) == Append(sorted, m)

\* messages.sort((a, b) => a.timestamp - b.timestamp): a stable sort
RECURSIVE InsertByTimestamp(_, _)
InsertByTimestamp(sorted, m) ==
  IF sorted = << >> THEN << m >>
  ELSE IF sorted[Len(sorted)].timestamp <= m.timestamp THEN Append(sorted, m)
  ELSE Append(InsertByTimestamp(SubSeq(sorted, 1, Len(sorted) - 1), m),
              sorted[Len(sorted)])

RECURSIVE SortByTimestamp(_)
SortByTimestamp(messages) ==
  IF messages = << >> THEN << >>
  ELSE InsertByTimestamp(SortByTimestamp(SubSeq(messages, 1, Len(messages) - 1)),
                         messages[Len(messages)])

\* (group chats keyed by the raw sender id, as 1:1 chats are)
SenderKeyRawId(message) == message.from

\* the grouping key of one message
SenderKey(message) ==
  IF message.isGroup
    THEN (IF message.fromMe THEN "me" ELSE "other_" \o message.fromName)
    ELSE message.from

\* (a gap of exactly the threshold taken to continue the group)
SameRunInclusive(currentSender, currentTime, message) ==
  LET messageTime == message.timestamp * 1000
      timeDiff == IF currentTime # 0 THEN messageTime - currentTime ELSE 0
  IN  currentSender = SenderKey(message) /\ timeDiff <= SAME_SENDER_GAP_MS

\* (every message taken to open a group of its own)
SameRunNever(currentSender, currentTime, message) == FALSE

\* whether the loop puts `message` into the current group; `currentTime ? ... : 0`
\* takes null and 0 alike, so 0 stands for the initial null
SameRun(currentSender, currentTime, message) ==
  LET messageTime == message.timestamp * 1000
      timeDiff == IF currentTime # 0 THEN messageTime - currentTime ELSE 0
  IN  currentSender = SenderKey(message) /\ timeDiff < SAME_SENDER_GAP_MS

\* the for-loop over the sorted messages: st = [groups, currentGroup, currentSender, currentTime]
RECURSIVE GroupLoop(_, _, _)
GroupLoop(sorted, i, st) ==
  IF i > Len(sorted) THEN st
  ELSE LET message == sorted[i]
           next == IF SameRun(st.currentSender, st.currentTime, message)
                     THEN [st EXCEPT !.currentGroup = Append(@, message),
                                     !.currentTime = message.timestamp * 1000]
                     ELSE [groups |-> IF Len(st.currentGroup) > 0
                                        THEN Append(st.groups, st.currentGroup)
                                        ELSE st.groups,
                           currentGroup |-> << message >>,
                           currentSender |-> SenderKey(message),
                           currentTime |-> message.timestamp * 1000]
       IN  GroupLoop(sorted, i + 1, next)

\* (the last group never pushed)
FinalGroupsDropped(st) == st.groups

\* "Add final group"
FinalGroups(st) ==
  IF Len(st.currentGroup) > 0 THEN Append(st.groups, st.currentGroup) ELSE st.groups

groupMessagesByTimeAndSender(messages) ==
  FinalGroups(GroupLoop(SortByTimestamp(messages), 1,
                        [groups |-> << >>, currentGroup |-> << >>,
                         currentSender |-> Null, currentTime |-> 0]))

-----------------------------------------------------------------------------
(* TimeWindowBuffer: processMessage, the delay timer, processGroupedMessages *)

EmptyMap == [x \in {} |-> Null]
MapRemove(f, k) == [x \in DOMAIN f \ {k} |-> f[x]]
MapPut(f, k, v) == [x \in DOMAIN f \cup {k} |-> IF x = k THEN v ELSE f[x]]
MapGet(f, k, default) == IF k \in DOMAIN f THEN f[k] ELSE default

\* const chatId = messageData.isGroup ? messageData.chatName : messageData.from
ChatIdOf(messageData) ==
  IF messageData.isGroup THEN messageData.chatName ELSE messageData.from

\* `${userId}-${chatId}`: userId is an integer, so the string determines the pair
BufferKey(userId, chatId) == << userId, chatId >>

\* this.messageBuffer.get(userId)?.get(chatId): whether it is defined, and its value
HasBuffer(mb, userId, chatId) ==
  userId \in DOMAIN mb /\ chatId \in DOMAIN mb[userId]

BufferOf(mb, userId, chatId) ==
  IF HasBuffer(mb, userId, chatId) THEN mb[userId][chatId] ELSE << >>

\* this.messageBuffer.get(userId).set(chatId, msgs), the user's map created if needed
BufferSet(mb, userId, chatId, msgs) ==
  MapPut(mb, userId, MapPut(MapGet(mb, userId, EmptyMap), chatId, msgs))

\* (the timeout left armed)
ClearTimeoutLeftArmed(lt, handle) == lt

\* (a clearTimeout that clears the timers armed before the handle's only)
ClearTimeoutOlder(lt, handle) == { t \in lt : t.id >= handle }

\* clearTimeout(handle)
ClearTimeout(lt, handle) == { t \in lt : t.id # handle }

\* (a delay given in the wrong unit)
TimerDeadlineWrongUnit(t) == t + GROUP_DELAY_MS * 1000

\* the expiry of setTimeout(..., this.GROUP_DELAY_MS) called at time t
TimerDeadline(t) == t + GROUP_DELAY_MS

\* (the size test off by one)
BufferFullOffByOne(chatBuffer) == Len(chatBuffer) > MAX_GROUP_SIZE

\* if (chatBuffer.length >= this.MAX_GROUP_SIZE)
BufferFull(chatBuffer) == Len(chatBuffer) >= MAX_GROUP_SIZE

\* (the taken buffer left in place)
SwapOutForgotten(mb, userId, chatId) == mb

\* this.messageBuffer.get(userId).set(chatId, []) after the buffer was taken
SwapOut(mb, userId, chatId) == BufferSet(mb, userId, chatId, << >>)

\* the invocation of processGroupedMessages that took `chatBuffer`, at its first
\* await; groupMessagesByTimeAndSender has sorted the taken array in place
\* (pc: the await it is suspended at; groupTopicContext, history, filtered: its
\* locals; forced, since, sinceSweep: whether the size cap called it, and the
\* ingestion records of the key at that moment)
NewFlight(fid, userId, chatId, chatBuffer, forced, since, sinceSweep) ==
  [fid |-> fid, user |-> userId, chatId |-> chatId,
   batch |-> SortByTimestamp(chatBuffer),
   groups |-> groupMessagesByTimeAndSender(chatBuffer),
   idx |-> 1, pc |-> "load",
   groupTopicContext |-> << >>, history |-> << >>, filtered |-> << >>,
   pending |-> << >>, forced |-> forced, since |-> since, sinceSweep |-> sinceSweep]

Ids(msgs) == [i \in 1..Len(msgs) |-> msgs[i].id]

\* processGroupedMessages up to its first await, entered with the maps mb, pt, lt
\* (sd, sr: the ingestion records): clear and forget the timer, take the buffer,
\* leave a fresh one, group the batch
processGroupedMessages(fid, userId, chatId, mb, pt, lt, sd, sr, forced) ==
  LET bufferKey == BufferKey(userId, chatId)
      chatBuffer == BufferOf(mb, userId, chatId)
      isEmpty == ~ HasBuffer(mb, userId, chatId) \/ Len(chatBuffer) = 0
  IN  /\ liveTimers' = IF bufferKey \in DOMAIN pt
                         THEN ClearTimeout(lt, pt[bufferKey]) ELSE lt
      /\ processingTimers' = MapRemove(pt, bufferKey)
      /\ messageBuffer' = IF isEmpty THEN mb ELSE SwapOut(mb, userId, chatId)
      /\ flights' = IF isEmpty THEN flights
                    ELSE flights \cup
                           { NewFlight(fid, userId, chatId, chatBuffer, forced,
                                       MapGet(sd, bufferKey, << >>),
                                       MapGet(sr, bufferKey, << >>)) }
      /\ drained' = IF isEmpty THEN drained ELSE drained \o Ids(chatBuffer)
      /\ sinceDrain' = IF isEmpty THEN sd ELSE MapPut(sd, bufferKey, << >>)
      /\ sinceReset' = IF isEmpty THEN sr ELSE MapPut(sr, bufferKey, << >>)

\* processMessage(messageData, userId, emitToUser), up to its return or first await
ProcessMessage(userId, messageData) ==
  LET chatId == ChatIdOf(messageData)
      bufferKey == BufferKey(userId, chatId)
      msg == [messageData EXCEPT !.ingestedAt = now]
      chatBuffer == Append(BufferOf(messageBuffer, userId, chatId), msg)
      mb == BufferSet(messageBuffer, userId, chatId, chatBuffer)
      lt == IF bufferKey \in DOMAIN processingTimers
              THEN ClearTimeout(liveTimers, processingTimers[bufferKey])
              ELSE liveTimers
      sd == MapPut(sinceDrain, bufferKey,
                   Append(MapGet(sinceDrain, bufferKey, << >>), msg.id))
      sr == MapPut(sinceReset, bufferKey,
                   Append(MapGet(sinceReset, bufferKey, << >>), msg.id))
  IN  /\ nextId <= MaxMsgs
      /\ nextId' = nextId + 1
      /\ IF BufferFull(chatBuffer)
           THEN processGroupedMessages(nextId, userId, chatId, mb, processingTimers,
                                       lt, sd, sr, TRUE)
           ELSE /\ messageBuffer' = mb
                /\ liveTimers' = lt \cup { [id |-> nextId, user |-> userId,
                                            chat |-> chatId,
                                            deadline |-> TimerDeadline(now)] }
                /\ processingTimers' = MapPut(processingTimers, bufferKey, nextId)
                /\ sinceDrain' = sd
                /\ sinceReset' = sr
                /\ UNCHANGED << flights, drained >>
      /\ UNCHANGED << exited, now, ticks, nextCleanup, cacheVars, storeVars >>

\* the callback of the delay timer: await this.processGroupedMessages(userId, chatId, ...)
TimerFire(t) ==
  /\ t \in liveTimers
  /\ t.deadline <= now
  /\ processGroupedMessages(t.id, t.user, t.chat, messageBuffer, processingTimers,
                            liveTimers \ {t}, sinceDrain, sinceReset, FALSE)
  /\ UNCHANGED << exited, now, ticks, nextId, nextCleanup, cacheVars, storeVars >>

\* (a sweep that keeps the empty buffers only)
KeptChatsEmptyOnly(chatMap, t) == { c \in DOMAIN chatMap : Len(chatMap[c]) = 0 }

\* "Clean old buffers": the chats of one user's map that the sweep keeps
KeptChats(chatMap, t) ==
  { c \in DOMAIN chatMap :
      ~ (Len(chatMap[c]) > 0 /\ (t - chatMap[c][1].timestamp * 1000) > BUFFER_STALE_MS) }

CleanBuffers(mb, t) ==
  LET swept == [u \in DOMAIN mb |-> [c \in KeptChats(mb[u], t) |-> mb[u][c]]]
  IN  [u \in { x \in DOMAIN swept : DOMAIN swept[x] # {} } |-> swept[u]]

\* the keys whose buffer the sweep deletes
SweptKeys(mb, t) ==
  { k \in DOMAIN sinceReset :
             HasBuffer(mb, k[1], k[2]) /\ ~ HasBuffer(CleanBuffers(mb, t), k[1], k[2]) }

\* "Clean old conversation history"
CleanHistory(ch, t) ==
  [k \in DOMAIN ch |->
     SelectSeq(ch[k], LAMBDA item : (t - item.createdAt) < CONVERSATION_MEMORY_MS)]

\* (the oldest signatures kept)
CleanSignaturesOldest(dt) ==
  [u \in DOMAIN dt |->
     IF Len(dt[u]) > SIGNATURE_CAP THEN Take(dt[u], SIGNATURE_KEEP) ELSE dt[u]]

\* "Clean duplicate tracker"
CleanSignatures(dt) ==
  [u \in DOMAIN dt |->
     IF Len(dt[u]) > SIGNATURE_CAP THEN TakeLast(dt[u], SIGNATURE_KEEP) ELSE dt[u]]

\* (every cluster younger than the conversation memory window kept)
KeptTopicsDayWindow(topicMap, t) ==
  { k \in DOMAIN topicMap : ~ ((t - topicMap[k].lastUpdate) > CONVERSATION_MEMORY_MS) }

\* "Clean group topic tracker"
KeptTopics(topicMap, t) ==
  { k \in DOMAIN topicMap : ~ ((t - topicMap[k].lastUpdate) > GROUP_TOPIC_TIMEOUT_MS) }

CleanTopics(gt, t) ==
  LET swept == [c \in DOMAIN gt |-> [k \in KeptTopics(gt[c], t) |-> gt[c][k]]]
  IN  [c \in { x \in DOMAIN swept : DOMAIN swept[x] # {} } |-> swept[c]]

\* cleanup(), called by the setInterval of SessionManager's constructor
Cleanup ==
  /\ nextCleanup <= now
  /\ nextCleanup' = nextCleanup + CLEANUP_INTERVAL_MS
  /\ messageBuffer' = CleanBuffers(messageBuffer, now)
  /\ conversationHistory' = CleanHistory(conversationHistory, now)
  /\ duplicateTracker' = CleanSignatures(duplicateTracker)
  /\ groupTopicTracker' = CleanTopics(groupTopicTracker, now)
  /\ sinceReset' = [k \in DOMAIN sinceReset |->
                      IF k \in SweptKeys(messageBuffer, now) THEN << >> ELSE sinceReset[k]]
  /\ UNCHANGED << exited, now, ticks, nextId, processingTimers, liveTimers, flights, drained,
                  sinceDrain, storeVars >>

\* the clock: it runs to the next step or to the next due timer, whichever is first;
\* a due timer or sweep runs before the clock moves on
DueTimes == { t.deadline : t \in liveTimers } \cup { nextCleanup }
Tick ==
  /\ ticks < MaxTicks
  /\ \A d \in DueTimes : d > now
  /\ now' = CHOOSE x \in DueTimes \cup { now + TICK_MS } :
              \A y \in DueTimes \cup { now + TICK_MS } : x <= y
  /\ ticks' = ticks + 1
  /\ UNCHANGED << exited, nextId, messageBuffer, processingTimers, liveTimers, flights,
                  nextCleanup, drained, sinceDrain, sinceReset, cacheVars, storeVars >>

\* the clock run straight to the next due timer or sweep
Elapse ==
  /\ ticks < MaxTicks
  /\ \A d \in DueTimes : d > now
  /\ now' = CHOOSE x \in DueTimes : \A y \in DueTimes : x <= y
  /\ ticks' = ticks + 1
  /\ UNCHANGED << exited, nextId, messageBuffer, processingTimers, liveTimers, flights,
                  nextCleanup, drained, sinceDrain, sinceReset, cacheVars, storeVars >>

\* processGroupedMessages from its first await on, as far as the buffers see it:
\* one turn of `for (const messageGroup of groupedMessages)` is over (for the first
\* run, so are the awaited history and topic loads before the loop); after the
\* last run the call returns. Nothing after the first await touches messageBuffer
\* or processingTimers.
FinishRun(f) ==
  /\ f \in flights
  /\ flights' = IF f.idx >= Len(f.groups) THEN flights \ {f}
                ELSE (flights \ {f}) \cup { [f EXCEPT !.idx = @ + 1] }
  /\ UNCHANGED << exited, now, ticks, nextId, messageBuffer, processingTimers, liveTimers,
                  nextCleanup, drained, sinceDrain, sinceReset, cacheVars, storeVars >>

-----------------------------------------------------------------------------
(* The buffer specification: ingestion, timers, sweeps and flushes of one     *)
(* (user, conversation) key, the 1:1 chat of user 1 with s1. The maps are     *)
(* keyed by user and chat and no operation but the sweep's loop reads two     *)
(* keys.                                                                      *)

SweepOffsetMs == 20000          \* the first sweep is due this long after the start

\* the messageData SessionManager's handlers build from a transport message
Message(id, from, fromName, chatName, isGroup, fromMe, timestamp, body) ==
  [id |-> id, from |-> from, fromName |-> fromName, chatName |-> chatName,
   isGroup |-> isGroup, fromMe |-> fromMe, timestamp |-> timestamp, body |-> body,
   ingestedAt |-> 0]

\* a message sent now, and one delivered late (sent more than an hour ago)
FreshStamp(t) == t \div 1000
LateStamp(t) == (t - BUFFER_STALE_MS) \div 1000 - 1

BufferInputs(id, t) ==
  { Message(id, "s1", "Sam", "Sam", FALSE, FALSE, ts, << "hello" >>) :
      ts \in { FreshStamp(t), LateStamp(t) } }

\* the 'message' / 'message_create' handler from the check "if we already processed
\* this message for this user" on
OnMessage(userId, messageData) ==
  /\ ~ \E i \in DOMAIN aiActions :
         /\ aiActions[i].original_message.id = messageData.id
         /\ aiActions[i].user_id = userId
  /\ ProcessMessage(userId, messageData)

InitIdle ==
  /\ gIn = << >> /\ gOut = << >> /\ gPc = "idle"
  /\ cIn = << >> /\ cOut = << >> /\ cPc = "idle"
  /\ kIn = << >> /\ kOut = << >> /\ kPc = "idle"
  /\ mIn = << >> /\ mOut = << >> /\ mPc = "idle"
  /\ fIn = << >> /\ fOut = << >> /\ fPc = "idle"

InitGrouper ==
  /\ now = T0 /\ nextId = 1 /\ ticks = 0 /\ exited = FALSE
  /\ actionStatus = EmptyMap /\ internalItems = << >> /\ decisionLog = << >>
  /\ messageBuffer = EmptyMap
  /\ processingTimers = EmptyMap
  /\ liveTimers = {}
  /\ flights = {}
  /\ nextCleanup = T0 + SweepOffsetMs
  /\ drained = << >>
  /\ sinceDrain = EmptyMap
  /\ sinceReset = EmptyMap
  /\ conversationHistory = EmptyMap
  /\ duplicateTracker = EmptyMap
  /\ groupTopicTracker = EmptyMap
  /\ aiActions = << >>
  /\ emitted = << >>
  /\ notified = << >>
  /\ runLog = << >>

Init == InitGrouper /\ InitIdle

\* the process is running; the function harnesses are left alone
Idle ==
  /\ ~ exited
  /\ UNCHANGED << groupVars, selectVars, classifyVars, combineVars, callVars, decisionVars >>
Ingest == Idle /\ \E m \in BufferInputs(nextId, now) : OnMessage(1, m)
Expire == Idle /\ \E t \in liveTimers : TimerFire(t)
RunReturns == Idle /\ \E f \in flights : FinishRun(f)
Sweep == Idle /\ Cleanup
Clock == Idle /\ Tick

Next == Ingest \/ Expire \/ RunReturns \/ Sweep \/ Clock

Spec == Init /\ [][Next]_vars

-----------------------------------------------------------------------------
(* Claims about the buffer, checked under Spec *)

BufferedKeys ==
  UNION { { BufferKey(u, c) : c \in DOMAIN messageBuffer[u] } : u \in DOMAIN messageBuffer }
Buffered(k) == messageBuffer[k[1]][k[2]]
TimersOf(k) == { t \in liveTimers : t.user = k[1] /\ t.chat = k[2] }
NoDuplicates(seq) == \A i, j \in DOMAIN seq : seq[i] = seq[j] => i = j

C2_BelowMaxAndForcedFlush ==
  /\ [](\A k \in BufferedKeys : Len(Buffered(k)) < MAX_GROUP_SIZE)
  /\ [][\A f \in flights' :
          (f.forced /\ f.fid \notin { g.fid : g \in flights }) =>
            /\ Len(f.batch) = MAX_GROUP_SIZE
            /\ HasBuffer(messageBuffer', f.user, f.chatId)
            /\ BufferOf(messageBuffer', f.user, f.chatId) = << >>
            /\ BufferKey(f.user, f.chatId) \notin DOMAIN processingTimers'
            /\ \A t \in liveTimers' : ~ (t.user = f.user /\ t.chat = f.chatId)]_vars

\* a forced flush is in flight
C2_ForcedFlushHappened == \E f \in flights : f.forced /\ Len(f.batch) = MAX_GROUP_SIZE

\* C3 as stated: a flushed batch holds exactly the messages ingested for its key
\* since the previous drain.
C3_BatchIsAllSinceDrain ==
  \A f \in flights : Range(Ids(f.batch)) = Range(f.since)

\* C3 amended: a flushed batch holds exactly the messages ingested for its key
\* since the previous drain or sweep deletion of the key's buffer (a sweep deletes
\* a buffer whose first message is over an hour old, and those messages reach no
\* batch); a message ingested while a batch is being processed goes into the
\* key's fresh buffer and leaves the batches in flight as they are; no message
\* is in two batches.
C3_DrainAtomic ==
  /\ [](/\ \A f \in flights :
             /\ Range(Ids(f.batch)) = Range(f.sinceSweep)
             /\ Len(f.batch) = Len(f.sinceSweep)
        /\ \A k \in BufferedKeys : Ids(Buffered(k)) = MapGet(sinceReset, k, << >>)
        /\ NoDuplicates(drained))
  /\ [][nextId' # nextId => flights \subseteq flights']_vars

\* a message was ingested for a key while a batch of that key is being processed
C3_IngestDuringFlight ==
  \E f \in flights :
    /\ HasBuffer(messageBuffer, f.user, f.chatId)
    /\ Len(BufferOf(messageBuffer, f.user, f.chatId)) > 0
    /\ Range(Ids(BufferOf(messageBuffer, f.user, f.chatId))) \cap Range(Ids(f.batch)) = {}

\* C4 as stated: no two flushes of one (user, conversation) key are in flight together.
C4_NoConcurrentFlush ==
  \A f1, f2 \in flights :
    (f1.user = f2.user /\ f1.chatId = f2.chatId) => f1 = f2

-----------------------------------------------------------------------------
(* The grouper specification: groupMessagesByTimeAndSender applied to every  *)
(* batch of up to MaxBatch messages of one buffer, a group chat's or a 1:1   *)
(* chat's, in any ingestion order                                            *)

\* name: `Group Member (${contactId})`, what SessionManager names a group's senders
GroupMemberName(contactId) == "Group Member (" \o contactId \o ")"

\* who writes in group chat g: the owner under two routing ids, a1 and b1
GroupSenders ==
  { [from |-> c, fromName |-> GroupMemberName(c), fromMe |-> c \in { "me0", "me1" }] :
      c \in { "me0", "me1", "a1", "b1" } }

\* seconds: 100 s, 200 s, exactly 5 min and more than 5 min apart
GroupStamps == { 1000, 1100, 1200, 1500 }

GroupChatInputs ==
  { Message(0, p.from, p.fromName, "g", TRUE, p.fromMe, ts, << "hello" >>) :
      p \in GroupSenders, ts \in GroupStamps }
DirectChatInputs ==
  { Message(0, "s1", "Sam", "Sam", FALSE, FALSE, ts, << "hello" >>) : ts \in GroupStamps }

\* a buffer's messages, numbered in ingestion order
Numbered(f) == [i \in DOMAIN f |-> [f[i] EXCEPT !.id = i]]

InitGroup ==
  /\ InitGrouper
  /\ cIn = << >> /\ cOut = << >> /\ cPc = "idle"
  /\ kIn = << >> /\ kOut = << >> /\ kPc = "idle"
  /\ mIn = << >> /\ mOut = << >> /\ mPc = "idle"
  /\ fIn = << >> /\ fOut = << >> /\ fPc = "idle"
  /\ gOut = << >> /\ gPc = "idle"
  /\ \E n \in 1..MaxBatch :
       \E f \in [1..n -> GroupChatInputs] \cup [1..n -> DirectChatInputs] :
         gIn = Numbered(f)

Group ==
  /\ gPc = "idle"
  /\ gOut' = groupMessagesByTimeAndSender(gIn)
  /\ gPc' = "done"
  /\ UNCHANGED << gIn, bufferVars, cacheVars, storeVars, decisionVars, selectVars, classifyVars,
                  combineVars, callVars >>

NextGroup == Group

SpecGroup == InitGroup /\ [][NextGroup]_vars

RECURSIVE Flatten(_)
Flatten(groups) ==
  IF groups = << >> THEN << >> ELSE groups[1] \o Flatten(Tail(groups))

\* C5: the runs partition the batch: every run is non-empty, every message of the
\* batch is in exactly one run, and inside a run timestamps do not decrease.
C5_RunsPartitionBatch ==
  gPc = "done" =>
    /\ \A r \in DOMAIN gOut : Len(gOut[r]) > 0
    /\ Len(Flatten(gOut)) = Len(gIn)
    /\ \A i \in DOMAIN gIn :
         Cardinality({ j \in DOMAIN Flatten(gOut) : Flatten(gOut)[j] = gIn[i] }) = 1
    /\ \A r \in DOMAIN gOut :
         \A i, j \in DOMAIN gOut[r] :
           i < j => gOut[r][i].timestamp <= gOut[r][j].timestamp

\* a batch ingested out of timestamp order, split into a run of several messages
\* and at least one more run
C5_SeveralRuns ==
  /\ gPc = "done"
  /\ Len(gOut) >= 2
  /\ \E r \in DOMAIN gOut : Len(gOut[r]) >= 2
  /\ \E i \in DOMAIN gIn : i > 1 /\ gIn[i].timestamp < gIn[i - 1].timestamp

InGap(m1, m2) ==
  /\ (m2.timestamp - m1.timestamp) * 1000 < SAME_SENDER_GAP_MS
  /\ (m1.timestamp - m2.timestamp) * 1000 < SAME_SENDER_GAP_MS

OwnerOtherOwner ==
  /\ Len(gIn) = 3
  /\ \A i \in 1..3 : gIn[i].isGroup
  /\ \E i, j, k \in 1..3 :
       /\ gIn[i].fromMe /\ ~ gIn[j].fromMe /\ gIn[k].fromMe
       /\ gIn[i].timestamp < gIn[j].timestamp
       /\ gIn[j].timestamp < gIn[k].timestamp

\* C6: in a group conversation the runs go by owner vs. display name, not by the
\* sender id: the messages of one run are all the owner's or all of one display
\* name; two messages within the gap that are both the owner's (under whatever
\* sender ids) or both of one display name are one run; owner, other, owner
\* interleaved by timestamp are three runs of one message.
C6_GroupKeyOwnerOrName ==
  gPc = "done" =>
    /\ \A r \in DOMAIN gOut :
         \A i, j \in DOMAIN gOut[r] :
           (gOut[r][i].isGroup /\ gOut[r][j].isGroup) =>
             /\ gOut[r][i].fromMe = gOut[r][j].fromMe
             /\ ~ gOut[r][i].fromMe => gOut[r][i].fromName = gOut[r][j].fromName
    /\ ( /\ Len(gIn) = 2
         /\ gIn[1].isGroup /\ gIn[2].isGroup
         /\ \/ gIn[1].fromMe /\ gIn[2].fromMe
            \/ ~ gIn[1].fromMe /\ ~ gIn[2].fromMe /\ gIn[1].fromName = gIn[2].fromName
         /\ InGap(gIn[1], gIn[2]) ) => Len(gOut) = 1
    /\ OwnerOtherOwner =>
         /\ Len(gOut) = 3
         /\ \A r \in 1..3 : Len(gOut[r]) = 1
         /\ gOut[1][1].fromMe /\ ~ gOut[2][1].fromMe /\ gOut[3][1].fromMe

\* owner, other, owner within the gap, grouped
C6_ThreeRuns ==
  /\ gPc = "done"
  /\ OwnerOtherOwner
  /\ \A i, j \in 1..3 : InGap(gIn[i], gIn[j])
  /\ Len(gOut) = 3
  /\ gOut[1][1].fromMe /\ gOut[3][1].fromMe
  /\ gOut[1][1].from # gOut[3][1].from
  /\ gOut[2][1].fromName = GroupMemberName("a1")

-----------------------------------------------------------------------------
(* ClassificationGateway: the confidence selection of processMessageWithHistory *)

\* (the floor taken as inclusive)
AboveFloorInclusive(action) == action.confidence >= CONFIDENCE_FLOOR

\* actions.filter(action => action.confidence > 0.7)
AboveFloor(action) == action.confidence > CONFIDENCE_FLOOR

\* highConfidenceActions.reduce((best, current) =>
\*   current.confidence > best.confidence ? current : best)
RECURSIVE ReduceBest(_, _, _)
ReduceBest(actions, i, best) ==
  IF i > Len(actions) THEN best
  ELSE ReduceBest(actions, i + 1,
                  IF actions[i].confidence > best.confidence THEN actions[i] ELSE best)

\* the parsed candidate list -> what processMessageWithHistory returns
SelectBest(actions) ==
  LET highConfidenceActions == SelectSeq(actions, AboveFloor)
  IN  IF Len(highConfidenceActions) = 0 THEN << >>
      ELSE << ReduceBest(highConfidenceActions, 2, highConfidenceActions[1]) >>

\* the candidate lists the classifier may answer with: confidences 0.65 .. 0.9
SelectTypes == { "task", "note", "event" }
SelectConfidences == { 65, 70, 71, 81, 90 }
SelectInputs ==
  { [type |-> ty, description |-> << ty >>, confidence |-> co] :
      ty \in SelectTypes, co \in SelectConfidences }

InitSelect ==
  /\ InitGrouper
  /\ gIn = << >> /\ gOut = << >> /\ gPc = "idle"
  /\ kIn = << >> /\ kOut = << >> /\ kPc = "idle"
  /\ mIn = << >> /\ mOut = << >> /\ mPc = "idle"
  /\ fIn = << >> /\ fOut = << >> /\ fPc = "idle"
  /\ cOut = << >> /\ cPc = "idle"
  /\ \E n \in 0..MaxCands : cIn \in [1..n -> SelectInputs]

Select ==
  /\ cPc = "idle"
  /\ cOut' = SelectBest(cIn)
  /\ cPc' = "done"
  /\ UNCHANGED << cIn, bufferVars, cacheVars, storeVars, decisionVars, groupVars, classifyVars,
                  combineVars, callVars >>

NextSelect == Select

SpecSelect == InitSelect /\ [][NextSelect]_vars

\* C10 as stated: the single candidate of highest confidence among those at or
\* above the floor 0.7 is returned (0.7 itself qualifies), and the empty list when
\* no candidate is at or above the floor.
C10_BestAtOrAboveFloor ==
  cPc = "done" =>
    IF \E i \in DOMAIN cIn : cIn[i].confidence >= CONFIDENCE_FLOOR
      THEN /\ Len(cOut) = 1
           /\ cOut[1] \in Range(cIn)
           /\ cOut[1].confidence >= CONFIDENCE_FLOOR
           /\ \A i \in DOMAIN cIn : cIn[i].confidence <= cOut[1].confidence
      ELSE cOut = << >>

\* C10 amended: the single candidate of highest confidence among those strictly
\* above the floor 0.7 is returned (the first of them on a tie; a candidate at
\* exactly 0.7 does not qualify), and the empty list when no candidate is above
\* the floor; [0.65, 0.81, 0.9] selects the 0.9 candidate.
C10_BestStrictlyAboveFloor ==
  cPc = "done" =>
    IF \E i \in DOMAIN cIn : cIn[i].confidence > CONFIDENCE_FLOOR
      THEN /\ Len(cOut) = 1
           /\ \E i \in DOMAIN cIn :
                /\ cOut[1] = cIn[i]
                /\ cIn[i].confidence > CONFIDENCE_FLOOR
                /\ \A j \in DOMAIN cIn : cIn[j].confidence <= cIn[i].confidence
                /\ \A j \in 1..(i - 1) : cIn[j].confidence < cIn[i].confidence
      ELSE cOut = << >>

\* [0.65, 0.81, 0.9] selected the 0.9 candidate
C10_Selected ==
  /\ cPc = "done"
  /\ Len(cIn) = 3
  /\ cIn[1].confidence = 65 /\ cIn[2].confidence = 81 /\ cIn[3].confidence = 90
  /\ cOut = << cIn[3] >>

-----------------------------------------------------------------------------
(* AIProcessor: the classification call, its failure paths and the keyword    *)
(* fallback.  A body is the list of its words; the gateway either throws,     *)
(* answers text that is not a JSON list, or answers a candidate list.         *)

LONG_MESSAGE_CHARS == 50
LONG_NOTE_CONFIDENCE == 60
MaxWords == 3

\* the categories of fallbackProcessing in the order their candidates are pushed,
\* each with its keyword list (time, event, task, note, issue, business, question,
\* learning, finance, health, shopping, travel, creative, administrative); a
\* keyword is the list of its words
FallbackRules ==
  << [type |-> "reminder", confidence |-> 80,
      description |-> << "time-based", "reminder", "or", "scheduling", "needed" >>,
      keywords |->
        { << "remind", "me" >>, << "don't", "forget" >>, << "remember", "to" >>,
          << "tomorrow" >>, << "today" >>, << "later" >>, << "next", "week" >>,
          << "esok" >>, << "monday" >>, << "tuesday" >>, << "wednesday" >>,
          << "thursday" >>, << "friday" >>, << "saturday" >>, << "sunday" >>, << "am" >>,
          << "pm" >>, << "o'clock" >>, << "morning" >>, << "afternoon" >>,
          << "evening" >>, << "night" >> }],
     [type |-> "event", confidence |-> 80,
      description |-> << "schedule", "event", "or", "meeting" >>,
      keywords |->
        { << "meeting" >>, << "appointment" >>, << "schedule" >>, << "course" >>,
          << "training" >>, << "session" >>, << "conference" >>, << "call" >>,
          << "webinar" >>, << "workshop" >>, << "seminar" >>, << "presentation" >>,
          << "demo" >>, << "interview" >>, << "event" >> }],
     [type |-> "task", confidence |-> 75,
      description |-> << "task", "or", "action", "item", "identified" >>,
      keywords |->
        { << "need", "to" >>, << "have", "to" >>, << "should" >>, << "must" >>,
          << "todo" >>, << "task" >>, << "complete" >>, << "finish" >>,
          << "do", "this" >>, << "work", "on" >>, << "handle" >>, << "deal", "with" >>,
          << "take", "care" >> }],
     [type |-> "note", confidence |-> 80,
      description |-> << "information", "to", "save", "and", "organize" >>,
      keywords |->
        { << "note", "this" >>, << "save", "this" >>, << "write", "down" >>,
          << "remember", "that" >>, << "important" >>, << "information" >>,
          << "details" >>, << "reference" >>, << "document" >>, << "record" >> }],
     [type |-> "issue", confidence |-> 80,
      description |-> << "technical", "or", "system", "issue", "reported" >>,
      keywords |->
        { << "problem" >>, << "issue" >>, << "not", "working" >>, << "broken" >>,
          << "error" >>, << "help" >>, << "unstable" >>, << "couldn't" >>,
          << "failed" >>, << "bug" >>, << "trouble" >>, << "wrong" >>, << "stuck" >>,
          << "crash" >>, << "freeze" >>, << "slow" >>, << "can't" >>, << "won't" >>,
          << "doesn't" >> }],
     [type |-> "follow_up", confidence |-> 75,
      description |-> << "business", "or", "client", "matter", "needs", "attention" >>,
      keywords |->
        { << "customer" >>, << "client" >>, << "business" >>, << "project" >>,
          << "work" >>, << "deadline" >>, << "proposal" >>, << "contract" >>,
          << "sale" >>, << "revenue" >>, << "profit" >>, << "marketing" >>,
          << "campaign" >>, << "launch" >> }],
     [type |-> "communication", confidence |-> 75,
      description |-> << "question", "requires", "response" >>,
      keywords |->
        { << "?" >>, << "how" >>, << "what" >>, << "why" >>, << "when" >>, << "where" >>,
          << "who" >>, << "which" >>, << "can", "you" >>, << "could", "you" >>,
          << "would", "you" >>, << "should", "i" >>, << "is", "it" >>,
          << "are", "you" >>, << "do", "you" >> }],
     [type |-> "learning", confidence |-> 70,
      description |-> << "learning", "or", "educational", "content" >>,
      keywords |->
        { << "learn" >>, << "study" >>, << "course" >>, << "tutorial" >>,
          << "training" >>, << "skill" >>, << "knowledge" >>, << "research" >>,
          << "understand" >>, << "teach" >>, << "education" >>, << "book" >>,
          << "read" >>, << "practice" >> }],
     [type |-> "finance", confidence |-> 80,
      description |-> << "financial", "matter", "needs", "attention" >>,
      keywords |->
        { << "money" >>, << "pay" >>, << "payment" >>, << "invoice" >>, << "bill" >>,
          << "cost" >>, << "price" >>, << "budget" >>, << "expense" >>, << "income" >>,
          << "profit" >>, << "loss" >>, << "investment" >>, << "bank" >>,
          << "account" >> }],
     [type |-> "health", confidence |-> 80,
      description |-> << "health-related", "task", "or", "reminder" >>,
      keywords |->
        { << "doctor" >>, << "appointment" >>, << "medicine" >>, << "health" >>,
          << "sick" >>, << "pain" >>, << "exercise" >>, << "gym" >>, << "diet" >>,
          << "nutrition" >>, << "wellness" >>, << "therapy" >>, << "checkup" >> }],
     [type |-> "shopping", confidence |-> 70,
      description |-> << "shopping", "or", "purchase", "task" >>,
      keywords |->
        { << "buy" >>, << "purchase" >>, << "shop" >>, << "order" >>, << "delivery" >>,
          << "shipping" >>, << "product" >>, << "item" >>, << "store" >>, << "market" >>,
          << "sale" >>, << "discount" >>, << "cart" >> }],
     [type |-> "travel", confidence |-> 80,
      description |-> << "travel", "planning", "or", "logistics" >>,
      keywords |->
        { << "travel" >>, << "trip" >>, << "flight" >>, << "hotel" >>, << "booking" >>,
          << "reservation" >>, << "ticket" >>, << "vacation" >>, << "holiday" >>,
          << "transport" >>, << "uber" >>, << "taxi" >>, << "airport" >> }],
     [type |-> "creative", confidence |-> 70,
      description |-> << "creative", "or", "content", "creation", "task" >>,
      keywords |->
        { << "create" >>, << "design" >>, << "write" >>, << "content" >>, << "post" >>,
          << "blog" >>, << "video" >>, << "photo" >>, << "image" >>, << "graphic" >>,
          << "logo" >>, << "brand" >>, << "creative" >>, << "idea" >>,
          << "brainstorm" >> }],
     [type |-> "administrative", confidence |-> 75,
      description |-> << "administrative", "task", "or", "paperwork" >>,
      keywords |->
        { << "form" >>, << "application" >>, << "register" >>, << "signup" >>,
          << "paperwork" >>, << "document" >>, << "certificate" >>, << "license" >>,
          << "renewal" >>, << "submission" >>, << "filing" >>, << "process" >> }] >>

\* pushed when the body is long and no category matched
LongNote ==
  [type |-> "note",
   description |-> << "detailed", "message", "-", "likely", "contains", "important",
                      "information" >>,
   confidence |-> LONG_NOTE_CONFIDENCE]

\* the words the bodies are made of
RepoUrl == "https://github.com/ferazfhansurie/juta-actions-server"
FallbackWords == { "remind", "me", "Tomorrow", "call", "pay", "team", "hello", RepoUrl }

\* String.prototype.toLowerCase, word by word
LowerCaseWord(word) ==
  IF word = "Tomorrow" THEN "tomorrow" ELSE IF word = "Send" THEN "send" ELSE word
toLowerCase(body) == [i \in DOMAIN body |-> LowerCaseWord(body[i])]

\* the keywords that occur inside a word of FallbackWords without being the word
KeywordsInside(word) == IF word = "team" THEN { << "am" >> } ELSE {}

\* message.includes(keyword): the keyword's words stand in a row in the message,
\* or the keyword lies inside one of its words
Includes(message, keyword) ==
  \/ \E i \in 1..(Len(message) - Len(keyword) + 1) :
       SubSeq(message, i, i + Len(keyword) - 1) = keyword
  \/ \E i \in DOMAIN message : keyword \in KeywordsInside(message[i])

\* messageData.body.length, the words being joined by single spaces
RECURSIVE BodyLength(_)
BodyLength(body) ==
  IF body = << >> THEN 0
  ELSE IF Len(body) = 1 THEN Len(body[1])
  ELSE Len(body[1]) + 1 + BodyLength(Tail(body))

\* (the last candidate pushed taken instead of the first of highest confidence)
FallbackBestLast(actions) == actions[Len(actions)]

\* actions.reduce((best, current) =>
\*   current.confidence > best.confidence ? current : best)
FallbackBest(actions) == ReduceBest(actions, 2, actions[1])

fallbackProcessing(messageData) ==
  LET message == toLowerCase(messageData.body)
      matched == SelectSeq(FallbackRules,
                           LAMBDA rule : \E keyword \in rule.keywords :
                                           Includes(message, keyword))
      pushed == [i \in DOMAIN matched |->
                   [type |-> matched[i].type, description |-> matched[i].description,
                    confidence |-> matched[i].confidence]]
      actions == IF BodyLength(messageData.body) > LONG_MESSAGE_CHARS /\ Len(pushed) = 0
                   THEN << LongNote >>
                   ELSE pushed
  IN  IF Len(actions) = 0 THEN << >> ELSE << FallbackBest(actions) >>

\* what the call of the chat-completion gateway comes to
Throws == [kind |-> "throws", actions |-> << >>]
Malformed == [kind |-> "malformed", actions |-> << >>]
Reply(actions) == [kind |-> "reply", actions |-> actions]

\* catch (parseError) { ...; return []; }
ParseFailure(messageData) == << >>

processMessageWithHistory(messageData, gateway) ==
  IF gateway.kind = "throws" THEN fallbackProcessing(messageData)
  ELSE IF gateway.kind = "malformed" THEN ParseFailure(messageData)
  ELSE SelectBest(gateway.actions)

\* the bodies and gateway outcomes considered
ClassifyBodies == UNION { [1..n -> FallbackWords] : n \in 1..MaxWords }
ClassifyGateways ==
  { Throws, Malformed, Reply(<< >>),
    Reply(<< [type |-> "task", description |-> << "call", "back" >>, confidence |-> 90] >>) }

InitClassify ==
  /\ InitGrouper
  /\ gIn = << >> /\ gOut = << >> /\ gPc = "idle"
  /\ cIn = << >> /\ cOut = << >> /\ cPc = "idle"
  /\ kOut = << >> /\ kPc = "idle"
  /\ mIn = << >> /\ mOut = << >> /\ mPc = "idle"
  /\ fIn = << >> /\ fOut = << >> /\ fPc = "idle"
  /\ \E body \in ClassifyBodies : \E gateway \in ClassifyGateways :
       kIn = [message |-> [body |-> body], gateway |-> gateway]

ClassifyCall ==
  /\ kPc = "idle"
  /\ kOut' = processMessageWithHistory(kIn.message, kIn.gateway)
  /\ kPc' = "done"
  /\ UNCHANGED << kIn, bufferVars, cacheVars, storeVars, decisionVars, groupVars, selectVars,
                  combineVars, callVars >>

NextClassify == ClassifyCall

SpecClassify == InitClassify /\ [][NextClassify]_vars

\* the body holds one of the time keywords
HasTimeKeyword(body) ==
  \E keyword \in FallbackRules[1].keywords : Includes(toLowerCase(body), keyword)

\* the body holds a keyword of another category than the time keywords
HasOtherKeyword(body) ==
  \E i \in 2..Len(FallbackRules) :
    \E keyword \in FallbackRules[i].keywords : Includes(toLowerCase(body), keyword)

\* C11: when the classification call throws (transport error, timeout), the
\* result returned is the keyword fallback's result for the same message; and if
\* the message holds a time keyword ("remind me", "tomorrow", ...) the single
\* candidate returned has type reminder, whatever other keywords it also holds.
C11_FallbackOnFailure ==
  (kPc = "done" /\ kIn.gateway.kind = "throws") =>
    /\ kOut = fallbackProcessing(kIn.message)
    /\ HasTimeKeyword(kIn.message.body) =>
         (Len(kOut) = 1 /\ kOut[1].type = "reminder")

\* the call failed on "remind me ... call" (time and event keywords) and a
\* reminder came back
C11_ReminderOverEvent ==
  /\ kPc = "done" /\ kIn.gateway.kind = "throws"
  /\ kIn.message.body = << "remind", "me", "call" >>
  /\ HasOtherKeyword(kIn.message.body)
  /\ Len(kOut) = 1 /\ kOut[1].type = "reminder"

\* C12 as stated: when the response does not decode as a candidate list, the
\* keyword fallback is invoked and its result is what is returned.
C12_MalformedFallsBack ==
  (kPc = "done" /\ kIn.gateway.kind = "malformed") =>
    kOut = fallbackProcessing(kIn.message)

-----------------------------------------------------------------------------
(* DuplicateGuard and GroupTopicTracker: signatures, keywords, similarity    *)

\* the words of the action descriptions after lower-casing and stripping, in the order
\* Array.prototype.sort gives them
Vocabulary ==
  << "ann", "back", "bob", "buy", "call", "milk", "pay", "rent", "report", "send", "the",
     "to" >>
WordRank(word) == CHOOSE i \in DOMAIN Vocabulary : Vocabulary[i] = word

\* .sort() of a word list
RECURSIVE InsertWord(_, _)
InsertWord(sorted, word) ==
  IF sorted = << >> THEN << word >>
  ELSE IF WordRank(sorted[Len(sorted)]) <= WordRank(word) THEN Append(sorted, word)
  ELSE Append(InsertWord(SubSeq(sorted, 1, Len(sorted) - 1), word), sorted[Len(sorted)])

RECURSIVE SortWords(_)
SortWords(words) ==
  IF words = << >> THEN << >>
  ELSE InsertWord(SortWords(SubSeq(words, 1, Len(words) - 1)), words[Len(words)])

\* .join('-')
RECURSIVE JoinWords(_)
JoinWords(words) ==
  IF words = << >> THEN ""
  ELSE IF Len(words) = 1 THEN words[1]
  ELSE words[1] \o "-" \o JoinWords(Tail(words))

\* .replace(/[^\w\s]/g, '') on one word: the punctuation goes, nothing takes its place
StripWord(word) == IF word = "report." THEN "report" ELSE word
StripPunctuation(text) == [i \in DOMAIN text |-> StripWord(text[i])]

createActionSignature(action) ==
  LET descWords == JoinWords(SortWords(Take(
                     SelectSeq(StripPunctuation(toLowerCase(action.description)),
                               LAMBDA word : Len(word) > MIN_WORD_LENGTH),
                     SIGNATURE_WORDS)))
  IN  action.type \o "-" \o descWords

commonWords ==
  { "the", "and", "or", "but", "in", "on", "at", "to", "for", "of", "with", "by", "is",
    "are", "was", "were", "be", "been", "have", "has", "had", "do", "does", "did",
    "will", "would", "could", "should", "may", "might", "can", "must", "shall" }

extractTopicKeywords(text) ==
  Take(SelectSeq(text, LAMBDA word : Len(word) > MIN_WORD_LENGTH /\ word \notin commonWords),
       KEYWORD_CAP)

\* a ratio a / b is the pair <<a, b>>; it exceeds h hundredths iff 100 a > h b
Exceeds(ratio, hundredths) == ratio[1] * 100 > hundredths * ratio[2]

calculateKeywordOverlap(keywords1, keywords2) ==
  IF Len(keywords1) = 0 \/ Len(keywords2) = 0 THEN << 0, 1 >>
  ELSE << Cardinality(Range(keywords1) \cap Range(keywords2)),
          Cardinality(Range(keywords1) \cup Range(keywords2)) >>

\* new Set(str.split(' ')): the empty string splits into one empty word
SplitSet(text) == IF text = << >> THEN { "" } ELSE Range(text)

calculateStringSimilarity(str1, str2) ==
  << Cardinality(SplitSet(str1) \cap SplitSet(str2)),
     Cardinality(SplitSet(str1) \cup SplitSet(str2)) >>

\* x.originalMessage && x.originalMessage.fromMe, as the JavaScript value it is
OriginalFromMe(x) ==
  IF "originalMessage" \in DOMAIN x
    THEN (IF x.originalMessage.fromMe THEN "true" ELSE "false")
    ELSE "undefined"

isSimilarToConversationHistory(action, history) ==
  \E i \in DOMAIN Take(history, RECENT_ACTIONS) :
    /\ history[i].type = action.type
    /\ OriginalFromMe(action) = OriginalFromMe(history[i])
    /\ Exceeds(calculateStringSimilarity(toLowerCase(action.description),
                                          toLowerCase(history[i].description)),
               DUPLICATE_SIMILARITY_THRESHOLD)

\* (a set that never reports a member)
HasSignatureNever(userDuplicates, signature) == FALSE

\* userDuplicates.has(signature)
HasSignature(userDuplicates, signature) == signature \in Range(userDuplicates)

\* (an insertion that is left to a later turn)
AddSignatureDeferred(userDuplicates, signature) == userDuplicates

\* userDuplicates.add(signature)
AddSignature(userDuplicates, signature) ==
  IF signature \in Range(userDuplicates) THEN userDuplicates
  ELSE Append(userDuplicates, signature)

\* action.originalMessage && action.originalMessage.fromMe === true
isOutgoingMessage(action) == OriginalFromMe(action) = "true"

\* the loop of filterDuplicateActions from action i on: [filtered, userDuplicates]
RECURSIVE FilterLoop(_, _, _, _)
FilterLoop(actions, i, st, history) ==
  IF i > Len(actions) THEN st
  ELSE LET action == actions[i]
           signature == createActionSignature(action)
           accept == [filtered |-> Append(st.filtered, action),
                      userDuplicates |-> AddSignature(st.userDuplicates, signature)]
       IN  FilterLoop(actions, i + 1,
             IF isOutgoingMessage(action) THEN accept
             ELSE IF HasSignature(st.userDuplicates, signature) THEN st
             ELSE IF isSimilarToConversationHistory(action, history) THEN st
             ELSE accept,
             history)

\* filterDuplicateActions(actions, userId, conversationHistory) on tracker dt:
\* the list it returns and the signature set it stores for the user
filterDuplicateActions(actions, userId, history, dt) ==
  FilterLoop(actions, 1,
             [filtered |-> << >>, userDuplicates |-> MapGet(dt, userId, << >>)], history)

-----------------------------------------------------------------------------
(* The store: the queries and the insert on table ai_actions                 *)

\* ORDER BY created_at DESC: created_at never decreases along the insertions
NewestFirst(rows) == Reverse(rows)

HistoryEntry(row) ==
  [type |-> row.type, description |-> row.description, createdAt |-> row.created_at,
   originalMessage |-> row.original_message]

\* the sender a run's history is loaded for
SenderIdOf(firstMessage) ==
  IF firstMessage.isGroup
    THEN (IF firstMessage.fromMe THEN "me" ELSE firstMessage.from)
    ELSE firstMessage.from

loadConversationHistoryForSender(userId, chatId, senderId, t) ==
  LET wanted(row) ==
        /\ row.user_id = userId
        /\ row.original_message.fromMe = (senderId = "me")
        /\ row.original_message.chatName = chatId
        /\ row.created_at > t - CONVERSATION_MEMORY_MS
      rows == Take(NewestFirst(SelectSeq(aiActions, wanted)), SENDER_HISTORY_LIMIT)
  IN  [i \in DOMAIN rows |-> HistoryEntry(rows[i])]

checkExistingActions(messageGroup, userId) ==
  SelectSeq(aiActions,
            LAMBDA row : /\ row.original_message.id \in Range(Ids(messageGroup))
                         /\ row.user_id = userId)

\* the topic key of a persisted row: type and all its keywords
ActionKey(row) == row.type \o "-" \o JoinWords(extractTopicKeywords(row.description))

\* the loop over topicResult.rows: the topics in the order the map first saw them
RECURSIVE TopicMapLoop(_, _, _)
TopicMapLoop(rows, i, topics) ==
  IF i > Len(rows) THEN topics
  ELSE LET row == rows[i]
           at == { j \in DOMAIN topics : topics[j].key = ActionKey(row) }
           entry == [description |-> row.description, userId |-> row.user_id,
                     createdAt |-> row.created_at]
           fresh == [key |-> ActionKey(row), type |-> row.type,
                     description |-> row.description, users |-> << row.user_id >>,
                     actions |-> << entry >>, lastUpdate |-> row.created_at]
       IN  TopicMapLoop(rows, i + 1,
             IF at = {} THEN Append(topics, fresh)
             ELSE LET j == CHOOSE x \in at : TRUE
                  IN  [topics EXCEPT
                         ![j].users = IF row.user_id \in Range(@) THEN @
                                      ELSE Append(@, row.user_id),
                         ![j].actions = Append(@, entry)])

loadGroupTopicContext(chatId, t) ==
  LET wanted(row) ==
        /\ row.original_message.chatName = chatId
        /\ row.original_message.isGroup
        /\ row.created_at > t - GROUP_TOPIC_TIMEOUT_MS
  IN  TopicMapLoop(Take(NewestFirst(SelectSeq(aiActions, wanted)), TOPIC_ROW_LIMIT),
                   1, << >>)

\* (a table without the index)
ViolatesUniqueIndexNever(rows, action, messageData) == FALSE

\* the unique index idx_unique_message_action on (original_message->>'id', type, description)
ViolatesUniqueIndex(rows, action, messageData) ==
  \E i \in DOMAIN rows :
    /\ rows[i].original_message.id = messageData.id
    /\ rows[i].type = action.type
    /\ rows[i].description = action.description

-----------------------------------------------------------------------------
(* processMessageGroup: one run from combination to the tracker updates      *)

\* new Date(msg.timestamp * 1000).toLocaleTimeString(), as the words a tokeniser
\* finds in it: hours, minutes, seconds
TimeWords(timestamp) ==
  << ToString((timestamp \div 3600) % 24), ToString((timestamp \div 60) % 60),
     ToString(timestamp % 60) >>

\* (the line without its time)
CombinedLineUntimed(msg) == msg.body

\* `[${timeStr}] ${msg.body}`
CombinedLine(msg) == << "[" >> \o TimeWords(msg.timestamp) \o << "]" >> \o msg.body

\* messageGroup.map(...).join('\n'): the words of the lines, "\n" between the lines
RECURSIVE CombinedBody(_)
CombinedBody(messageGroup) ==
  IF messageGroup = << >> THEN << >>
  ELSE IF Len(messageGroup) = 1 THEN CombinedLine(messageGroup[1])
  ELSE CombinedLine(messageGroup[1]) \o << "\n" >> \o CombinedBody(Tail(messageGroup))

createCombinedMessage(messageGroup) ==
  IF Len(messageGroup) = 1 THEN messageGroup[1]
  ELSE [body |-> CombinedBody(messageGroup), messageCount |-> Len(messageGroup),
        isGroupedMessage |-> TRUE, originalMessages |-> messageGroup] @@ messageGroup[1]

\* (any contributor to the topic taken to cover the user)
TopicCoversAnyUser(topic, userId, t) == Len(topic.users) >= 1

\* (a discussion exactly two hours old taken to be recent)
TopicCoversAtTwoHours(topic, userId, t) ==
  IF userId \in Range(topic.users) THEN TRUE
  ELSE IF Len(topic.users) >= 2 /\ Len(topic.actions) >= 2
    THEN t - topic.lastUpdate <= RECENT_DISCUSSION_MS
  ELSE FALSE

\* the two tests of checkGroupTopicDuplicate on a topic whose overlap is over the threshold
TopicCovers(topic, userId, t) ==
  IF userId \in Range(topic.users) THEN TRUE
  ELSE IF Len(topic.users) >= 2 /\ Len(topic.actions) >= 2
    THEN t - topic.lastUpdate < RECENT_DISCUSSION_MS
  ELSE FALSE

\* the topics of the context whose keywords overlap the message's over the threshold
OverlappingTopics(messageData, groupTopicContext) ==
  { i \in DOMAIN groupTopicContext :
      Exceeds(calculateKeywordOverlap(extractTopicKeywords(messageData.body),
                extractTopicKeywords(groupTopicContext[i].description)),
              GROUP_TOPIC_SIMILARITY_THRESHOLD) }

checkGroupTopicDuplicate(messageData, groupTopicContext, userId, t) ==
  \E i \in OverlappingTopics(messageData, groupTopicContext) :
    TopicCovers(groupTopicContext[i], userId, t)

\* the for-loop over filteredActions, saveAndEmitAction each: [rows, events]; an
\* insert the unique index rejects throws into the catch, before the emit
RECURSIVE SaveLoop(_, _, _, _, _, _)
SaveLoop(actions, i, st, messageData, userId, t) ==
  IF i > Len(actions) THEN st
  ELSE LET action == actions[i]
           actionId == << userId, t, Len(st.rows) + 1 >>
           row == [action_id |-> actionId, type |-> action.type,
                   description |-> action.description, original_message |-> messageData,
                   user_id |-> userId, created_at |-> t]
           event == [userId |-> userId, event |-> "newAction", actionId |-> actionId,
                     type |-> action.type, description |-> action.description,
                     confidence |-> action.confidence,
                     originalMessage |->
                       [id |-> messageData.id, fromName |-> messageData.fromName,
                        from |-> messageData.from, chatName |-> messageData.chatName,
                        body |-> messageData.body, timestamp |-> messageData.timestamp,
                        isGroup |-> messageData.isGroup,
                        isGroupedMessage |-> "isGroupedMessage" \in DOMAIN messageData,
                        messageCount |-> IF "messageCount" \in DOMAIN messageData
                                           THEN messageData.messageCount ELSE 1]]
       IN  SaveLoop(actions, i + 1,
             IF ViolatesUniqueIndex(st.rows, action, messageData) THEN st
             ELSE [rows |-> Append(st.rows, row), events |-> Append(st.events, event)],
             messageData, userId, t)

updateConversationHistory(ch, userId, chatId, actions, t) ==
  LET conversationKey == BufferKey(userId, chatId)
      entries == [i \in DOMAIN actions |->
                    [type |-> actions[i].type, description |-> actions[i].description,
                     createdAt |-> t]]
  IN  MapPut(ch, conversationKey,
             Take(Reverse(entries) \o MapGet(ch, conversationKey, << >>), HISTORY_CAP))

TopicKey(action) ==
  action.type \o "-"
    \o JoinWords(Take(extractTopicKeywords(action.description), TOPIC_KEY_WORDS))

RECURSIVE TopicUpdateLoop(_, _, _, _, _)
TopicUpdateLoop(actions, i, chatTopics, userId, t) ==
  IF i > Len(actions) THEN chatTopics
  ELSE LET action == actions[i]
           topic == MapGet(chatTopics, TopicKey(action),
                           [users |-> {}, actions |-> << >>, lastUpdate |-> t,
                            type |-> action.type, description |-> action.description])
       IN  TopicUpdateLoop(actions, i + 1,
             MapPut(chatTopics, TopicKey(action),
                    [topic EXCEPT !.users = @ \cup { userId },
                                  !.actions = Append(@, [userId |-> userId,
                                                         description |-> action.description,
                                                         timestamp |-> t]),
                                  !.lastUpdate = t]),
             userId, t)

updateGroupTopicTracker(gt, chatId, actions, userId, t) ==
  MapPut(gt, chatId, TopicUpdateLoop(actions, 1, MapGet(gt, chatId, EmptyMap), userId, t))

-----------------------------------------------------------------------------
(* processGroupedMessages from its first await on: its steps between awaits   *)

RunOf(f) == f.groups[f.idx]

\* the for-loop goes to the next run, or the call returns
Continue(f) ==
  IF f.idx >= Len(f.groups) THEN flights \ {f}
  ELSE (flights \ {f}) \cup { [f EXCEPT !.idx = @ + 1, !.pc = "run",
                                        !.history = << >>, !.filtered = << >>,
                                        !.pending = << >>] }

\* what the run log says of run f.idx of flight f
LogEntry(f, verdict, signature, known) ==
  LET first == RunOf(f)[1]
      topics == f.groupTopicContext
  IN  [fid |-> f.fid, run |-> RunOf(f),
       user |-> f.user, chatId |-> f.chatId, id |-> first.id, fromMe |-> first.fromMe,
       isGroup |-> first.isGroup, verdict |-> verdict, signature |-> signature,
       known |-> known,
       clusters |-> { [users |-> Range(topics[i].users), count |-> Len(topics[i].actions),
                       age |-> now - topics[i].lastUpdate] :
                        i \in OverlappingTopics(createCombinedMessage(RunOf(f)), topics) }]

\* the run's entry replaced by `entry`
Relog(log, entry) ==
  [i \in DOMAIN log |->
     IF log[i].user = entry.user /\ log[i].id = entry.id /\ log[i].fid = entry.fid
       THEN entry ELSE log[i]]

\* await loadConversationHistory(...); await loadGroupTopicContext(chatId) (the
\* conversation history loaded first is passed to nothing)
LoadContext(f) ==
  /\ f \in flights
  /\ f.pc = "load"
  /\ flights' = (flights \ {f}) \cup
                  { [f EXCEPT !.pc = "run",
                              !.groupTopicContext =
                                 IF f.batch[1].isGroup
                                   THEN loadGroupTopicContext(f.chatId, now) ELSE << >>] }
  /\ UNCHANGED << exited, now, ticks, nextId, messageBuffer, processingTimers, liveTimers,
                  nextCleanup, drained, sinceDrain, sinceReset, cacheVars, storeVars >>

\* one run up to the classifier call: the sender's history and the existing-action
\* query (both read the table as it is when the second returns), the topic check
PreCheckWith(f, existingActions) ==
  LET messageGroup == RunOf(f)
      combinedMessage == createCombinedMessage(messageGroup)
      history == loadConversationHistoryForSender(f.user, f.chatId,
                                                  SenderIdOf(messageGroup[1]), now)
      isGroupTopicDuplicate ==
        /\ combinedMessage.isGroup
        /\ f.batch[1].isGroup
        /\ checkGroupTopicDuplicate(combinedMessage, f.groupTopicContext, f.user, now)
  IN  /\ f \in flights
      /\ f.pc = "run"
      /\ IF Len(existingActions) > 0
           THEN /\ flights' = Continue(f)
                /\ runLog' = Append(runLog, LogEntry(f, "existing", "", FALSE))
           ELSE IF isGroupTopicDuplicate
           THEN /\ flights' = Continue(f)
                /\ runLog' = Append(runLog, LogEntry(f, "topic", "", FALSE))
           ELSE /\ flights' = (flights \ {f}) \cup
                                { [f EXCEPT !.pc = "classify", !.history = history] }
                /\ runLog' = Append(runLog, LogEntry(f, "classifying", "", FALSE))
      /\ UNCHANGED << exited, now, ticks, nextId, messageBuffer, processingTimers, liveTimers,
                      nextCleanup, drained, sinceDrain, sinceReset, cacheVars,
                      aiActions, emitted, notified >>

\* (a failed query taken for one that found a row)
QueryFailedAsFound(messageGroup, userId) == << "unknown" >>

\* checkExistingActions when its query throws: catch (error) { ...; return []; }
QueryFailed(messageGroup, userId) == << >>

\* the existing-action query answers or throws
QueryOutcomes == { "rows", "error" }
ExistingActions(messageGroup, userId, outcome) ==
  IF outcome = "rows" THEN checkExistingActions(messageGroup, userId)
  ELSE QueryFailed(messageGroup, userId)

PreCheck(f) == PreCheckWith(f, ExistingActions(RunOf(f), f.user, "rows"))

\* (the updates run whatever the gateway returned)
HasCandidatesAlways(potentialActions) == TRUE

\* if (potentialActions && potentialActions.length > 0)
HasCandidates(potentialActions) == Len(potentialActions) > 0

\* the classifier call returns `reply`, the candidate list parsed from its answer;
\* the selection and filterDuplicateActions follow in the same turn
Classified(f, reply) ==
  LET potentialActions == SelectBest(reply)
      result == filterDuplicateActions(potentialActions, f.user, f.history,
                                       duplicateTracker)
      signature == IF Len(potentialActions) = 0 THEN ""
                   ELSE createActionSignature(potentialActions[1])
      known == signature \in Range(MapGet(duplicateTracker, f.user, << >>))
      isGroup == createCombinedMessage(RunOf(f)).isGroup
  IN  /\ f \in flights
      /\ f.pc = "classify"
      /\ IF ~ HasCandidates(potentialActions)
           THEN /\ flights' = Continue(f)
                /\ runLog' = Relog(runLog, LogEntry(f, "none", "", FALSE))
                /\ UNCHANGED cacheVars
           ELSE /\ duplicateTracker' = MapPut(duplicateTracker, f.user,
                                              result.userDuplicates)
                /\ IF Len(result.filtered) = 0
                     THEN /\ flights' = Continue(f)
                          /\ runLog' = Relog(runLog,
                                             LogEntry(f, "filtered", signature, known))
                          /\ conversationHistory' =
                               updateConversationHistory(conversationHistory, f.user,
                                                         f.chatId, << >>, now)
                          /\ groupTopicTracker' =
                               IF isGroup
                                 THEN updateGroupTopicTracker(groupTopicTracker, f.chatId,
                                                              << >>, f.user, now)
                                 ELSE groupTopicTracker
                     ELSE /\ flights' = (flights \ {f}) \cup
                                          { [f EXCEPT !.pc = "save",
                                                      !.filtered = result.filtered] }
                          /\ runLog' = Relog(runLog,
                                             LogEntry(f, "accepted", signature, known))
                          /\ UNCHANGED << conversationHistory, groupTopicTracker >>
      /\ UNCHANGED << exited, now, ticks, nextId, messageBuffer, processingTimers, liveTimers,
                      nextCleanup, drained, sinceDrain, sinceReset, aiActions, emitted, notified >>

\* action.description.toLowerCase() of createActionSignature throws a TypeError
\* when the candidate has no description
SignatureThrows(action) == "description" \notin DOMAIN action

\* the classifier returns a candidate that filterDuplicateActions cannot sign: the
\* TypeError leaves processMessageGroup and the loop of processGroupedMessages,
\* neither of which catches it.  The rejection of a forced flush is caught by the
\* session's message handler; that of a timer's flush is unhandled, which the
\* runtime either only reports or hands to the uncaughtException handler, and
\* that handler ends the process.
FilterThrows(f, reply, unhandledIsFatal) ==
  LET potentialActions == SelectBest(reply)
  IN  /\ f \in flights
      /\ f.pc = "classify"
      /\ Len(potentialActions) > 0
      /\ SignatureThrows(potentialActions[1])
      /\ flights' = flights \ {f}
      /\ runLog' = Relog(runLog, LogEntry(f, "threw", "", FALSE))
      /\ exited' = IF f.forced THEN FALSE ELSE unhandledIsFatal
      /\ UNCHANGED << now, ticks, nextId, messageBuffer, processingTimers, liveTimers,
                      nextCleanup, drained, sinceDrain, sinceReset, cacheVars,
                      aiActions, emitted, notified >>

\* (no notification attempted)
NotificationsNone(events) == << >>

\* await this.sendActionNotification(actionWithId, userId), for each of the events
Notifications(events) ==
  [i \in DOMAIN events |->
     [actionId |-> events[i].actionId, userId |-> events[i].userId,
      originalMessage |-> events[i].originalMessage]]

\* the inserts, notifications and emits of the accepted actions return; the
\* history and topic updates follow in the same turn
Saved(f) ==
  LET combinedMessage == createCombinedMessage(RunOf(f))
      result == SaveLoop(f.filtered, 1, [rows |-> aiActions, events |-> emitted],
                         combinedMessage, f.user, now)
  IN  /\ f \in flights
      /\ f.pc = "save"
      /\ aiActions' = result.rows
      /\ notified' = notified \o Notifications(SubSeq(result.events, Len(emitted) + 1,
                                                       Len(result.events)))
      /\ emitted' = result.events
      /\ conversationHistory' =
           updateConversationHistory(conversationHistory, f.user, f.chatId,
                                     f.filtered, now)
      /\ groupTopicTracker' =
           IF combinedMessage.isGroup
             THEN updateGroupTopicTracker(groupTopicTracker, f.chatId, f.filtered,
                                          f.user, now)
             ELSE groupTopicTracker
      /\ flights' = Continue(f)
      /\ UNCHANGED << exited, now, ticks, nextId, messageBuffer, processingTimers, liveTimers,
                      nextCleanup, drained, sinceDrain, sinceReset, duplicateTracker,
                      runLog >>

\* updateConversationHistory and updateGroupTopicTracker after the loop over
\* filteredActions, then the next run
AfterSave(f) ==
  LET combinedMessage == createCombinedMessage(RunOf(f))
  IN  /\ conversationHistory' =
           updateConversationHistory(conversationHistory, f.user, f.chatId,
                                     f.filtered, now)
      /\ groupTopicTracker' =
           IF combinedMessage.isGroup
             THEN updateGroupTopicTracker(groupTopicTracker, f.chatId, f.filtered,
                                          f.user, now)
             ELSE groupTopicTracker
      /\ flights' = Continue(f)

\* saveAndEmitAction, step by step (one action at most was accepted).  The INSERT
\* returns: if the database refused it (connection lost, unique index violated)
\* the catch block ends saveAndEmitAction
Inserted(f, refused) ==
  LET combinedMessage == createCombinedMessage(RunOf(f))
      result == SaveLoop(f.filtered, 1, [rows |-> aiActions, events |-> << >>],
                         combinedMessage, f.user, now)
  IN  /\ f \in flights
      /\ f.pc = "save"
      /\ IF refused \/ result.events = << >>
           THEN /\ AfterSave(f)
                /\ UNCHANGED aiActions
           ELSE /\ aiActions' = result.rows
                /\ flights' = (flights \ {f}) \cup
                                 { [f EXCEPT !.pc = "notify", !.pending = result.events] }
                /\ UNCHANGED << conversationHistory, groupTopicTracker >>
      /\ UNCHANGED << exited, now, ticks, nextId, messageBuffer, processingTimers,
                      liveTimers, nextCleanup, drained, sinceDrain, sinceReset,
                      duplicateTracker, emitted, notified, runLog >>

\* how sendActionNotification ends: the notification is created, there is no
\* OneSignal client, the user has no player id, the lookup of the player id or the
\* createNotification call throws
PushOutcomes == { "sent", "noClient", "noPlayerId", "lookupError", "deliveryError" }

\* (an error of the lookup or of the delivery leaving sendActionNotification)
NotificationRejectsOnError(outcome) == outcome \in { "lookupError", "deliveryError" }

\* whether sendActionNotification rejects: its own try/catch keeps every error inside
NotificationRejects(outcome) == FALSE

\* sendActionNotification returns; had it rejected, the catch of saveAndEmitAction
\* would have ended saveAndEmitAction before the emit
NotifyAttempted(f, outcome) ==
  /\ f \in flights
  /\ f.pc = "notify"
  /\ notified' = notified \o [i \in DOMAIN Notifications(f.pending) |->
                                 [outcome |-> outcome] @@ Notifications(f.pending)[i]]
  /\ IF NotificationRejects(outcome)
       THEN AfterSave(f)
       ELSE /\ flights' = (flights \ {f}) \cup { [f EXCEPT !.pc = "emit"] }
            /\ UNCHANGED cacheVars
  /\ UNCHANGED << exited, now, ticks, nextId, messageBuffer, processingTimers,
                  liveTimers, nextCleanup, drained, sinceDrain, sinceReset,
                  duplicateTracker, aiActions, emitted, runLog >>

\* emitToUser(userId, 'newAction', ...), and what follows saveAndEmitAction
EmitDone(f) ==
  /\ f \in flights
  /\ f.pc = "emit"
  /\ emitted' = emitted \o f.pending
  /\ AfterSave(f)
  /\ UNCHANGED << exited, now, ticks, nextId, messageBuffer, processingTimers,
                  liveTimers, nextCleanup, drained, sinceDrain, sinceReset,
                  duplicateTracker, aiActions, notified, runLog >>

-----------------------------------------------------------------------------
(* The pipeline specification: the sessions of several users in one group    *)
(* chat, from ingestion to the persisted and emitted actions                 *)

MaxUsers == 3                   \* sessions
MaxDeliveries == 3              \* messages ingested in one behaviour

Users == 1..MaxUsers

\* the contact id of the session's own account
OwnerContact(userId) == "me" \o ToString(userId)

\* a message in group chat g, from the session's owner or from a1
PipelineInputs(id, userId, t) ==
  { Message(id, c, GroupMemberName(c), "g", TRUE, c = OwnerContact(userId),
            FreshStamp(t), << "send", "the", "report" >>) :
      c \in { OwnerContact(userId), "a1" } }

\* what the classifier may answer: nothing, or one action of high confidence
SendReport == [type |-> "task", description |-> << "send", "report" >>, confidence |-> 90]
ClassifierReplies == { << >>, << SendReport >> }

\* a reply whose candidate lacks the description
Undescribed == [type |-> "task", confidence |-> 90]
FaultyReplies == { << Undescribed >> }

\* the sessions that have received a message
Active == { k[1] : k \in DOMAIN sinceDrain }

\* the sessions with a timer pending
Waiting == { t.user : t \in liveTimers }

\* messages arrive while no flush is being processed, at the instants the clock
\* stops at, for at most two sessions at a time; the sessions being alike, they
\* receive their first messages in the order of their ids
Deliver ==
  /\ Idle
  /\ nextId <= MaxDeliveries
  /\ flights = {}
  /\ \A d \in DueTimes : d > now
  /\ \E u \in Users :
       /\ \A v \in 1..(u - 1) : v \in Active
       /\ Cardinality(Waiting \cup {u}) <= 2
       /\ \E m \in PipelineInputs(nextId, u, now) : OnMessage(u, m)
Load == Idle /\ \E f \in flights : LoadContext(f)
Check == Idle /\ \E f \in flights : PreCheck(f)
Classify == Idle /\ \E f \in flights : \E reply \in ClassifierReplies : Classified(f, reply)
Throw ==
  /\ Idle
  /\ \E f \in flights : \E reply \in FaultyReplies : \E unhandledIsFatal \in BOOLEAN :
       FilterThrows(f, reply, unhandledIsFatal)
Save == Idle /\ \E f \in flights : Saved(f)
\* the awaits of a flush return before the next timer or sweep is due; the clock
\* is followed as long as a timer is pending or a message is still to come
Jump ==
  /\ Idle
  /\ flights = {}
  /\ liveTimers # {}
  /\ Elapse

NextRuns == Deliver \/ Expire \/ Load \/ Check \/ Classify \/ Save \/ Jump

\* the first sweep is due an hour after the constructor ran
InitRuns ==
  /\ InitIdle
  /\ now = T0 /\ nextId = 1 /\ ticks = 0 /\ exited = FALSE
  /\ actionStatus = EmptyMap /\ internalItems = << >> /\ decisionLog = << >>
  /\ messageBuffer = EmptyMap
  /\ processingTimers = EmptyMap
  /\ liveTimers = {}
  /\ flights = {}
  /\ nextCleanup = T0 + CLEANUP_INTERVAL_MS
  /\ drained = << >>
  /\ sinceDrain = EmptyMap
  /\ sinceReset = EmptyMap
  /\ conversationHistory = EmptyMap
  /\ duplicateTracker = EmptyMap
  /\ groupTopicTracker = EmptyMap
  /\ aiActions = << >>
  /\ emitted = << >>
  /\ notified = << >>
  /\ runLog = << >>

SpecRuns == InitRuns /\ [][NextRuns]_vars

-----------------------------------------------------------------------------
(* Claims about the duplicate guard and the topic tracker, checked under SpecRuns *)

\* the runs for which the classifier gave a candidate action
Candidates == { i \in DOMAIN runLog : runLog[i].verdict \in { "filtered", "accepted" } }

\* a row was persisted / an event was emitted for the run of log entry e
Persisted(e) ==
  \E r \in DOMAIN aiActions :
    aiActions[r].user_id = e.user /\ aiActions[r].original_message.id = e.id
Emitted(e) ==
  \E r \in DOMAIN emitted :
    emitted[r].userId = e.user /\ emitted[r].originalMessage.id = e.id

\* C7: a candidate action of a non-owner run whose signature is already in the
\* user's signature set is suppressed (no row persisted, no event emitted); one
\* whose signature is not in the set is accepted and its signature is in the set
\* afterwards; so of two non-owner runs of one user whose candidates have the same
\* type and signature keywords the later one is suppressed.
C7_ExactDuplicateSuppressed ==
  /\ \A i \in Candidates :
       LET e == runLog[i]
       IN  ~ e.fromMe =>
             IF e.known
               THEN e.verdict = "filtered" /\ ~ Persisted(e) /\ ~ Emitted(e)
               ELSE /\ e.verdict = "accepted"
                    /\ e.signature \in Range(MapGet(duplicateTracker, e.user, << >>))
  /\ \A i, j \in Candidates :
       ( /\ i < j
         /\ runLog[i].user = runLog[j].user
         /\ ~ runLog[i].fromMe /\ ~ runLog[j].fromMe
         /\ runLog[i].signature = runLog[j].signature ) => runLog[j].verdict = "filtered"

\* two non-owner runs of one user with the same signature: the first accepted,
\* persisted and emitted, the second suppressed
C7_SecondSuppressed ==
  \E i, j \in Candidates :
    /\ i < j
    /\ runLog[i].user = runLog[j].user
    /\ ~ runLog[i].fromMe /\ ~ runLog[j].fromMe
    /\ runLog[i].signature = runLog[j].signature
    /\ runLog[i].verdict = "accepted" /\ Persisted(runLog[i]) /\ Emitted(runLog[i])
    /\ runLog[j].verdict = "filtered" /\ runLog[j].known

\* C8 as stated: of two owner-originated runs of one user whose candidate actions
\* have the same signature neither is suppressed by the duplicate filter.
C8_OwnerRunsBothAccepted ==
  \A i, j \in Candidates :
    ( /\ i < j
      /\ runLog[i].user = runLog[j].user
      /\ runLog[i].fromMe /\ runLog[j].fromMe
      /\ runLog[i].signature = runLog[j].signature )
    => runLog[i].verdict = "accepted" /\ runLog[j].verdict = "accepted"

\* the users other than e.user that contributed to a topic overlapping e's message
OtherContributors(e) == UNION { c.users : c \in e.clusters } \ { e.user }

\* C9 as stated: in a group conversation, a run of a user whose message overlaps
\* (> 0.7) a topic cluster that a different user has contributed to is suppressed:
\* the classifier is not called for it.
C9_SecondUserSuppressed ==
  \A i \in DOMAIN runLog :
    (runLog[i].isGroup /\ OtherContributors(runLog[i]) # {})
      => runLog[i].verdict \in { "existing", "topic" }

\* C9 amended: a run whose message overlaps (> 0.7) a topic cluster is suppressed
\* as a topic duplicate exactly when the run's own user has contributed to such a
\* cluster, or such a cluster holds at least 2 actions of at least 2 users and was
\* updated less than 2 hours ago; a cluster with one other contributor does not
\* suppress the run: the classifier is called. A suppressed run persists and
\* emits nothing.
C9_SuppressedWhenCovered ==
  \A i \in DOMAIN runLog :
    LET e == runLog[i]
    IN  (e.isGroup /\ e.verdict # "existing") =>
          /\ e.verdict = "topic" <=>
               \E c \in e.clusters :
                 \/ e.user \in c.users
                 \/ /\ Cardinality(c.users) >= 2
                    /\ c.count >= 2
                    /\ c.age < RECENT_DISCUSSION_MS
          /\ e.verdict = "topic" => ~ Persisted(e) /\ ~ Emitted(e)

\* the message of a second user overlaps a cluster that only the first user has
\* contributed to, and the second user's run was classified and its action persisted
C9_SecondUserClassified ==
  \E i \in DOMAIN runLog :
    /\ runLog[i].isGroup
    /\ \E c \in runLog[i].clusters : c.users # {} /\ runLog[i].user \notin c.users
    /\ \A c \in runLog[i].clusters : Cardinality(c.users) = 1
    /\ runLog[i].verdict = "accepted"
    /\ Persisted(runLog[i])

-----------------------------------------------------------------------------
(* The pipeline of one session with the failures of a run: a candidate that  *)
(* cannot be signed, an insert that the database refuses                     *)

MaxFaultDeliveries == 3         \* messages ingested in one behaviour

\* a message of group chat g from the owner or a1, for session 1
FaultInputs(id, t) == PipelineInputs(id, 1, t)

\* messages arrive while no flush is being processed
DeliverOne ==
  /\ Idle
  /\ nextId <= MaxFaultDeliveries
  /\ flights = {}
  /\ \A d \in DueTimes : d > now
  /\ \E m \in FaultInputs(nextId, now) : OnMessage(1, m)

\* the classifier may also answer with a second task
CallBack == [type |-> "task", description |-> << "call", "back" >>, confidence |-> 90]
FaultReplies == ClassifierReplies \cup { << CallBack >> }

ClassifyAny == Idle /\ \E f \in flights : \E reply \in FaultReplies : Classified(f, reply)
Insert == Idle /\ \E f \in flights : \E refused \in BOOLEAN : Inserted(f, refused)
Notify == Idle /\ \E f \in flights : \E outcome \in PushOutcomes : NotifyAttempted(f, outcome)
Emit == Idle /\ \E f \in flights : EmitDone(f)

NextFaults ==
  DeliverOne \/ Expire \/ Load \/ Check \/ ClassifyAny \/ Throw \/ Insert \/ Notify \/ Emit
    \/ Jump

SpecFaults == InitRuns /\ [][NextFaults]_vars

\* C13 as stated: an error raised while one run of a batch is processed does not
\* keep the later runs of the batch from being processed: a flush ends only with
\* the last of its runs.
C13_LaterRunsStillProcessed ==
  [][ \A f \in flights :
        (\A g \in flights' : g.fid # f.fid) => f.idx = Len(f.groups) ]_vars

\* a notification was attempted for the run of log entry e
Notified(e) ==
  \E r \in DOMAIN notified :
    notified[r].userId = e.user /\ notified[r].originalMessage.id = e.id

\* the flush of log entry e is still at run e
InFlight(e) ==
  \E f \in flights : f.user = e.user /\ f.chatId = e.chatId /\ RunOf(f)[1].id = e.id

\* the accepted runs whose insert failed
InsertFailed ==
  { i \in DOMAIN runLog :
      runLog[i].verdict = "accepted" /\ ~ InFlight(runLog[i]) /\ ~ Persisted(runLog[i]) }

-----------------------------------------------------------------------------
(* The pipeline of one session over the hours, with the hourly sweep          *)

MaxSweeps == 8                  \* sweeps in one behaviour
MaxSweepDeliveries == 2         \* messages ingested in one behaviour

\* a message of group chat g arrives, at any hour, while no flush is being processed
DeliverHourly ==
  /\ Idle
  /\ nextId <= MaxSweepDeliveries
  /\ flights = {}
  /\ \A d \in DueTimes : d > now
  /\ \E m \in FaultInputs(nextId, now) : OnMessage(1, m)

\* nothing is in flight and nothing is due: the clock runs to the next timer or
\* sweep
Wait ==
  /\ Idle
  /\ flights = {}
  /\ \A d \in DueTimes : d > now
  /\ nextCleanup <= T0 + MaxSweeps * CLEANUP_INTERVAL_MS
  /\ now' = CHOOSE x \in DueTimes : \A y \in DueTimes : x <= y
  /\ UNCHANGED << exited, ticks, nextId, messageBuffer, processingTimers, liveTimers,
                  flights, nextCleanup, drained, sinceDrain, sinceReset, cacheVars,
                  storeVars >>

NextSweep ==
  DeliverHourly \/ Expire \/ Load \/ Check \/ ClassifyAny \/ Save \/ Sweep \/ Wait

SpecSweep == InitRuns /\ [][NextSweep]_vars

\* the age of a cluster at time t exceeds the topic timeout
TopicExpired(topic, t) == t - topic.lastUpdate > GROUP_TOPIC_TIMEOUT_MS

\* C15: when a sweep has run, the cluster map holds no cluster whose lastUpdate
\* is more than 6 h old and no conversation with an empty cluster map, and every
\* cluster updated within the 6 h before the sweep is still there, unchanged.
C15_SweepEvictsTopics ==
  [][ nextCleanup' # nextCleanup =>
        /\ \A c \in DOMAIN groupTopicTracker' :
             /\ DOMAIN groupTopicTracker'[c] # {}
             /\ \A k \in DOMAIN groupTopicTracker'[c] :
                  ~ TopicExpired(groupTopicTracker'[c][k], now)
        /\ \A c \in DOMAIN groupTopicTracker :
             \A k \in DOMAIN groupTopicTracker[c] :
               ~ TopicExpired(groupTopicTracker[c][k], now) =>
                 /\ c \in DOMAIN groupTopicTracker'
                 /\ k \in DOMAIN groupTopicTracker'[c]
                 /\ groupTopicTracker'[c][k] = groupTopicTracker[c][k] ]_vars

\* a sweep has just run; of two actions persisted in group chat g the cluster of
\* the one created more than 6 h ago is gone and that of the other one is kept
C15_OldGoneFreshKept ==
  /\ nextCleanup = now + CLEANUP_INTERVAL_MS
  /\ \E i, j \in DOMAIN aiActions :
       /\ now - aiActions[i].created_at > GROUP_TOPIC_TIMEOUT_MS
       /\ now - aiActions[j].created_at <= GROUP_TOPIC_TIMEOUT_MS
       /\ "g" \in DOMAIN groupTopicTracker
       /\ TopicKey(aiActions[i]) \notin DOMAIN groupTopicTracker["g"]
       /\ TopicKey(aiActions[j]) \in DOMAIN groupTopicTracker["g"]

-----------------------------------------------------------------------------
(* The pipeline of one session in the 1:1 chat with Sam, second by second     *)

MaxDirect == 3                  \* messages ingested in one behaviour

\* a message of Sam's, sent now or delivered late
DirectInputs(id, t) ==
  { Message(id, "s1", "Sam", "Sam", FALSE, FALSE, ts, << "send", "the", "report" >>) :
      ts \in { FreshStamp(t), LateStamp(t) } }

\* a message arrives, whatever is in flight
DeliverDirect ==
  /\ Idle
  /\ nextId <= MaxDirect
  /\ \A d \in DueTimes : d > now
  /\ \E m \in DirectInputs(nextId, now) : OnMessage(1, m)

NextDirect == DeliverDirect \/ Expire \/ Load \/ Check \/ Classify \/ Save \/ Clock

SpecDirect == InitRuns /\ [][NextDirect]_vars

\* the messages of the runs processed so far
LoggedMessages == UNION { Range(runLog[i].run) : i \in DOMAIN runLog }

\* nothing is buffered, pending or in flight
Quiescent ==
  /\ flights = {} /\ liveTimers = {}
  /\ \A k \in BufferedKeys : Buffered(k) = << >>

\* the rows persisted for the run of log entry e
RowsOf(e) ==
  { r \in DOMAIN aiActions :
      aiActions[r].user_id = e.user /\ aiActions[r].original_message.id = e.id }

\* three messages of Sam's, sent and ingested within 10 seconds, are all that was
\* ingested, and all is processed
ThreeWithinTenSeconds ==
  /\ nextId = 4 /\ Quiescent
  /\ Cardinality(LoggedMessages) = 3
  /\ \A m, n \in LoggedMessages :
       /\ m.ingestedAt - n.ingestedAt <= 10000
       /\ m.timestamp - n.timestamp <= 10

-----------------------------------------------------------------------------
(* Claims about the buffers when the timer and the forced flush meet          *)

\* the step is the callback of timer t finding no buffer or an empty one
EmptyFlushOf(t) ==
  /\ t \in liveTimers /\ t \notin liveTimers'
  /\ t.deadline <= now
  /\ nextId' = nextId
  /\ BufferOf(messageBuffer, t.user, t.chat) = << >>

\* C17: when the delay timer is due as the message that fills the buffer arrives,
\* one of the two flushes takes the batch: no message is handed to two batches; a
\* timer's flush that finds the buffer missing or empty starts nothing and changes
\* neither buffers, signature sets, clusters, history nor the stored actions; a
\* forced flush leaves no timer of its key armed, and an armed timer's buffer is
\* empty only if a sweep deleted it.
C17_OneFlushTakesBatch ==
  /\ [] /\ NoDuplicates(drained)
        /\ \A t \in liveTimers :
             \/ Len(BufferOf(messageBuffer, t.user, t.chat)) > 0
             \/ ~ HasBuffer(messageBuffer, t.user, t.chat)
        /\ \A t, u \in liveTimers : (t.user = u.user /\ t.chat = u.chat) => t = u
  /\ [][ \A t \in liveTimers :
           EmptyFlushOf(t) =>
             /\ flights' = flights /\ drained' = drained
             /\ messageBuffer' = messageBuffer
             /\ UNCHANGED << cacheVars, storeVars >> ]_vars
  /\ [][ \A f \in flights' :
           (f.forced /\ f.fid \notin { g.fid : g \in flights }) =>
             /\ \A t \in liveTimers' : ~ (t.user = f.user /\ t.chat = f.chatId)
             /\ \A g \in flights' : (g.fid # f.fid) => Range(Ids(g.batch)) \cap Range(Ids(f.batch)) = {} ]_vars

\* the timer armed by the fourth message was due at the instant the fifth message
\* arrived; the forced flush took all five and no timer of the key is left
C17_TimerDueAtForcedFlush ==
  \E f \in flights :
    /\ f.forced /\ Len(f.batch) = MAX_GROUP_SIZE
    /\ \E i, j \in DOMAIN f.batch :
         /\ f.batch[j].id = f.fid
         /\ f.batch[i].id = f.fid - 1
         /\ f.batch[i].ingestedAt + GROUP_DELAY_MS = f.batch[j].ingestedAt
    /\ \A t \in liveTimers : ~ (t.user = f.user /\ t.chat = f.chatId)

-----------------------------------------------------------------------------
(* Claims about the order in which a batch is processed                       *)

\* the log entries of run k of flight f
EntriesOf(f, k) ==
  { i \in DOMAIN runLog : runLog[i].fid = f.fid /\ runLog[i].id = f.groups[k][1].id }

\* run k of flight f is over: it was skipped, or classified with nothing
\* accepted, or its accepted action was persisted
Finished(f, k) ==
  \E i \in EntriesOf(f, k) :
    \/ runLog[i].verdict \in { "existing", "topic", "none", "filtered" }
    \/ runLog[i].verdict = "accepted" /\ Persisted(runLog[i])

\* C18: a batch is processed in timestamp order, messages of equal timestamp in
\* the order of their ingestion; its runs are taken one after another in that
\* order: while run k is being processed every earlier run is finished (skipped
\* or persisted) and no later run has reached the classifier.
C18_BatchInOrder ==
  \A f \in flights :
    /\ Flatten(f.groups) = f.batch
    /\ \A i, j \in DOMAIN f.batch :
         i < j => \/ f.batch[i].timestamp < f.batch[j].timestamp
                  \/ /\ f.batch[i].timestamp = f.batch[j].timestamp
                     /\ f.batch[i].id < f.batch[j].id
    /\ \A k \in DOMAIN f.groups :
         /\ k < f.idx => Finished(f, k)
         /\ k > f.idx => EntriesOf(f, k) = {}
         /\ (k = f.idx /\ f.pc \in { "load", "run" }) => EntriesOf(f, k) = {}
         /\ Cardinality(EntriesOf(f, k)) <= 1
    /\ \A i, j \in DOMAIN runLog :
         (i < j /\ runLog[i].fid = f.fid /\ runLog[j].fid = f.fid) =>
           \E k, l \in DOMAIN f.groups : k < l /\ i \in EntriesOf(f, k) /\ j \in EntriesOf(f, l)

\* a message delivered late was ingested after a fresh one and is processed
\* before it: its run is persisted and the classifier is at the second run
C18_LateMessageFirst ==
  \E f \in flights :
    /\ Len(f.groups) = 2 /\ f.idx = 2 /\ f.pc = "classify"
    /\ f.groups[1][1].id > f.groups[2][1].id
    /\ \E i \in EntriesOf(f, 1) : runLog[i].verdict = "accepted" /\ Persisted(runLog[i])

-----------------------------------------------------------------------------
(* Claims about the gap between the messages of a run                         *)

\* the positions of the sorted batch at which the returned runs begin
RECURSIVE LenBefore(_, _)
LenBefore(groups, k) ==
  IF k = 1 THEN 0 ELSE Len(groups[k - 1]) + LenBefore(groups, k - 1)
RunStarts == { LenBefore(gOut, k) + 1 : k \in DOMAIN gOut }

\* milliseconds from message m1 to message m2
GapMs(m1, m2) == (m2.timestamp - m1.timestamp) * 1000

\* C19 as stated: a message of the sorted batch starts a new run exactly when its
\* key differs from the previous message's or its timestamp is more than 5 minutes
\* after the previous one's; same-key messages exactly 5 minutes apart share a run.
C19_NewRunWhenGapExceeds ==
  gPc = "done" =>
    LET sorted == Flatten(gOut)
    IN  \A p \in 2..Len(sorted) :
          p \in RunStarts <=>
            \/ SenderKey(sorted[p]) # SenderKey(sorted[p - 1])
            \/ GapMs(sorted[p - 1], sorted[p]) > SAME_SENDER_GAP_MS

\* C19 amended: a message of the sorted batch starts a new run exactly when its
\* key differs from the previous message's or its timestamp is 5 minutes or more
\* after the previous one's; same-key messages less than 5 minutes apart share a
\* run, those exactly 5 minutes apart do not; so every run is maximal.
C19_NewRunWhenGapReached ==
  gPc = "done" =>
    LET sorted == Flatten(gOut)
    IN  /\ sorted = SortByTimestamp(gIn)
        /\ \A p \in 2..Len(sorted) :
             p \in RunStarts <=>
               \/ SenderKey(sorted[p]) # SenderKey(sorted[p - 1])
               \/ GapMs(sorted[p - 1], sorted[p]) >= SAME_SENDER_GAP_MS

\* three messages of one sender at 1000 s, 1200 s and 1500 s: the third, exactly
\* 5 minutes after the second, has a run of its own
C19_ExactlyFiveMinutes ==
  /\ gPc = "done"
  /\ Len(gIn) = 3 /\ Len(gOut) = 2
  /\ Len(gOut[1]) = 2 /\ Len(gOut[2]) = 1
  /\ SenderKey(gOut[1][2]) = SenderKey(gOut[2][1])
  /\ GapMs(gOut[1][1], gOut[1][2]) = 200000
  /\ GapMs(gOut[1][2], gOut[2][1]) = SAME_SENDER_GAP_MS

-----------------------------------------------------------------------------
(* createCombinedMessage applied to the runs the grouper returns             *)

\* messages of group chat g: the owner under two contact ids, and a1
CombineStamps == { 1000, 1100, 1200 }
CombineBodies == { << "hello" >>, << "call", "back" >> }
CombineMessages ==
  { Message(0, c, GroupMemberName(c), "g", TRUE, c \in { "me0", "me1" }, ts, body) :
      c \in { "me0", "me1", "a1" }, ts \in CombineStamps, body \in CombineBodies }

\* the batches that the grouper returns as one run, unchanged
CombineRuns ==
  { Numbered(f) : f \in { r \in UNION { [1..n -> CombineMessages] : n \in 1..MaxBatch } :
                            groupMessagesByTimeAndSender(r) = << r >> } }

InitCombine ==
  /\ InitGrouper
  /\ gIn = << >> /\ gOut = << >> /\ gPc = "idle"
  /\ cIn = << >> /\ cOut = << >> /\ cPc = "idle"
  /\ kIn = << >> /\ kOut = << >> /\ kPc = "idle"
  /\ mOut = << >> /\ mPc = "idle"
  /\ fIn = << >> /\ fOut = << >> /\ fPc = "idle"
  /\ mIn \in CombineRuns

Combine ==
  /\ mPc = "idle"
  /\ mOut' = createCombinedMessage(mIn)
  /\ mPc' = "done"
  /\ UNCHANGED << mIn, bufferVars, cacheVars, storeVars, decisionVars, groupVars, selectVars,
                  classifyVars, callVars >>

NextCombine == Combine

SpecCombine == InitCombine /\ [][NextCombine]_vars

\* the lines of a body: its words between the "\n"
RECURSIVE SplitLines(_, _)
SplitLines(words, line) ==
  IF words = << >> THEN << line >>
  ELSE IF Head(words) = "\n" THEN << line >> \o SplitLines(Tail(words), << >>)
  ELSE SplitLines(Tail(words), Append(line, Head(words)))

\* what a message takes from its sender and conversation
MessageMetadata == { "id", "from", "fromName", "chatName", "isGroup", "fromMe", "timestamp" }

\* C20: combining a run of one message returns that message, without the
\* isGroupedMessage flag; combining a run of n > 1 messages returns a message
\* whose body is the n lines "[time] body" of the run's messages, in run order,
\* joined by newlines, with isGroupedMessage true, messageCount n, and the id,
\* sender and conversation fields of the run's first message.
C20_CombinedMessage ==
  mPc = "done" =>
    IF Len(mIn) = 1
      THEN mOut = mIn[1] /\ "isGroupedMessage" \notin DOMAIN mOut
      ELSE LET lines == SplitLines(mOut.body, << >>)
           IN  /\ Len(lines) = Len(mIn)
               /\ \A i \in DOMAIN mIn :
                    lines[i] = << "[" >> \o TimeWords(mIn[i].timestamp) \o << "]" >>
                                 \o mIn[i].body
               /\ mOut.isGroupedMessage = TRUE
               /\ mOut.messageCount = Len(mIn)
               /\ \A field \in MessageMetadata : mOut[field] = mIn[1][field]

\* a run of three messages of the owner, sent from two contact ids with two
\* bodies at three times, combined
C20_ThreeCombined ==
  /\ mPc = "done"
  /\ Len(mIn) = 3
  /\ mIn[1].from # mIn[3].from
  /\ mIn[1].body # mIn[2].body
  /\ mIn[1].timestamp < mIn[2].timestamp /\ mIn[2].timestamp < mIn[3].timestamp
  /\ mOut.messageCount = 3 /\ mOut.from = mIn[1].from

-----------------------------------------------------------------------------
(* createActionSignature called on two actions whose descriptions hold the   *)
(* same words in two orders: SpecSignature                                   *)

MaxDescWords == 4            \* words in a description

SignatureWords == { "Send", "report.", "bob", "back", "to" }
SignatureTypes == { "task", "note" }
SignatureDescriptions == UNION { [1..n -> SignatureWords] : n \in 0..MaxDescWords }

\* the description with its words in the order p
Reordered(description, p) == [i \in DOMAIN description |-> description[p[i]]]

InitSignature ==
  /\ InitGrouper
  /\ gIn = << >> /\ gOut = << >> /\ gPc = "idle"
  /\ cIn = << >> /\ cOut = << >> /\ cPc = "idle"
  /\ kIn = << >> /\ kOut = << >> /\ kPc = "idle"
  /\ mIn = << >> /\ mOut = << >> /\ mPc = "idle"
  /\ fOut = << >> /\ fPc = "idle"
  /\ \E d \in SignatureDescriptions, t2 \in SignatureTypes :
       \E p \in Permutations(DOMAIN d) :
         fIn = << [type |-> "task", description |-> d, confidence |-> 90],
                  [type |-> t2, description |-> Reordered(d, p), confidence |-> 90] >>

Sign ==
  /\ fPc = "idle"
  /\ fOut' = << createActionSignature(fIn[1]), createActionSignature(fIn[2]) >>
  /\ fPc' = "done"
  /\ UNCHANGED << fIn, bufferVars, cacheVars, storeVars, decisionVars, groupVars, selectVars,
                  classifyVars, combineVars >>

NextSignature == Sign

SpecSignature == InitSignature /\ [][NextSignature]_vars

\* the content words of a description: stripped, lower case, longer than two letters
ContentWords(description) ==
  SelectSeq(StripPunctuation(toLowerCase(description)),
            LAMBDA word : Len(word) > MIN_WORD_LENGTH)

\* C21: two actions of the same type whose descriptions consist of the same content
\* words in a different order have the same signature
C21_StableUnderWordOrder ==
  (fPc = "done" /\ fIn[1].type = fIn[2].type) => fOut[1] = fOut[2]

\* C21 (for comparison): with at most three content words the signature is the type
\* joined with all of them, sorted, and the order of the words does not matter
C21_StableUpToThreeWords ==
  (/\ fPc = "done"
   /\ fIn[1].type = fIn[2].type
   /\ Len(ContentWords(fIn[1].description)) <= SIGNATURE_WORDS)
    => /\ fOut[1] = fOut[2]
       /\ fOut[1] = fIn[1].type \o "-"
                      \o JoinWords(SortWords(ContentWords(fIn[1].description)))

\* C21: four content words in two orders whose first three differ
C21_FourWordsReordered ==
  /\ fPc = "done"
  /\ fIn[1] = [type |-> "task", confidence |-> 90,
               description |-> << "Send", "report.", "bob", "back" >>]
  /\ fIn[2] = [type |-> "task", confidence |-> 90,
               description |-> << "back", "bob", "report.", "Send" >>]
  /\ fOut = << "task-bob-report-send", "task-back-bob-report" >>

-----------------------------------------------------------------------------
(* filterDuplicateActions called on the classifier's candidate of a run, with *)
(* the history loaded for the run's sender: SpecSimilar                      *)

MaxHistory == 2              \* rows in the loaded history

SimilarDescriptions ==
  { << "Send", "the", "report", "bob", "back" >>,
    << "call", "send", "the", "report", "bob", "back" >>,
    << "call", "back" >> }

\* what processMessageWithHistory returns: type, description, details, confidence
SimilarCandidates ==
  { [type |-> t, description |-> d, confidence |-> 90] :
      t \in SignatureTypes, d \in SimilarDescriptions }

\* a row of ai_actions of chat s1 as loadConversationHistoryForSender maps it
HistoryRow(type, description, fromMe) ==
  HistoryEntry([type |-> type, description |-> description, created_at |-> T0,
                original_message |->
                  Message(0, "a1", "Ann", "s1", FALSE, fromMe, FreshStamp(T0),
                          << "send", "the", "report" >>)])

\* the histories of one sender class: the query selects on original_message->>'fromMe'
Histories(fromMe) ==
  UNION { [1..n -> { HistoryRow(t, d, fromMe) :
                       t \in SignatureTypes,
                       d \in SimilarDescriptions \ { << "call", "back" >> } }] :
          n \in 0..MaxHistory }

InitSimilar ==
  /\ InitGrouper
  /\ gIn = << >> /\ gOut = << >> /\ gPc = "idle"
  /\ cIn = << >> /\ cOut = << >> /\ cPc = "idle"
  /\ kIn = << >> /\ kOut = << >> /\ kPc = "idle"
  /\ mIn = << >> /\ mOut = << >> /\ mPc = "idle"
  /\ fOut = << >> /\ fPc = "idle"
  /\ \E fromMe \in BOOLEAN, action \in SimilarCandidates :
       \E history \in Histories(fromMe),
          signatures \in { << >>, << "task-back-call" >> } :
         fIn = [fromMe |-> fromMe, actions |-> << action >>, history |-> history,
                tracker |-> MapPut(EmptyMap, 1, signatures)]

Filter ==
  /\ fPc = "idle"
  /\ fOut' = filterDuplicateActions(fIn.actions, 1, fIn.history, fIn.tracker)
  /\ fPc' = "done"
  /\ UNCHANGED << fIn, bufferVars, cacheVars, storeVars, decisionVars, groupVars, selectVars,
                  classifyVars, combineVars >>

NextSimilar == Filter

SpecSimilar == InitSimilar /\ [][NextSimilar]_vars

\* the lower-case words of a description, as a set
WordSet(description) == Range(toLowerCase(description))

\* the word-level Jaccard similarity of two descriptions is over 0.8
JaccardOver80(d1, d2) ==
  Cardinality(WordSet(d1) \cap WordSet(d2)) * 100
    > 80 * Cardinality(WordSet(d1) \cup WordSet(d2))

\* the history entries of the claim's rule: among the 5 most recent, of the
\* candidate's type, other-originated, similar to the candidate
SimilarEntries(action, history) ==
  { i \in DOMAIN history :
      /\ i <= 5
      /\ history[i].type = action.type
      /\ ~ history[i].originalMessage.fromMe
      /\ JaccardOver80(action.description, history[i].description) }

\* C22: for a run that the owner did not originate, a candidate with a similar
\* entry of its type and of the other-originated class among the 5 most recent
\* history entries is suppressed
C22_SimilarSuppressed ==
  (/\ fPc = "done"
   /\ "history" \in DOMAIN fIn
   /\ ~ fIn.fromMe
   /\ SimilarEntries(fIn.actions[1], fIn.history) # {})
    => fOut.filtered = << >>

\* C22 (for comparison): a candidate whose signature is not in the user's set is
\* accepted whatever the history holds
C22_HistoryNeverSuppresses ==
  (/\ fPc = "done"
   /\ "history" \in DOMAIN fIn
   /\ ~ HasSignature(fIn.tracker[1], createActionSignature(fIn.actions[1])))
    => fOut.filtered = fIn.actions

\* C22: the candidate repeats the description of the newest history entry word
\* for word and is accepted
C22_RepeatAccepted ==
  /\ fPc = "done"
  /\ "history" \in DOMAIN fIn
  /\ ~ fIn.fromMe
  /\ Len(fIn.history) >= 1
  /\ fIn.history[1].type = fIn.actions[1].type
  /\ fIn.history[1].description = fIn.actions[1].description
  /\ fOut.filtered = fIn.actions

-----------------------------------------------------------------------------
(* The signature set of one user over many accepted actions and the hourly   *)
(* sweeps: SpecTracker                                                       *)

MaxSignatures == 52          \* candidates with a signature of their own

\* the k-th candidate the classifier returns: the signatures differ for k <= 64
PoolCandidate(k) ==
  LET n == k - 1
  IN  [type |-> << "task", "note" >>[(n % 2) + 1],
       description |->
         << << "send", "call", "buy", "pay" >>[((n \div 2) % 4) + 1],
            << "report", "milk", "rent", "back" >>[((n \div 8) % 4) + 1],
            << "bob", "ann" >>[((n \div 32) % 2) + 1] >>,
       confidence |-> 90]

\* processMessageGroup hands the classifier's candidate to filterDuplicateActions,
\* which stores the user's set
FilterCall(action) ==
  LET result == filterDuplicateActions(<< action >>, 1, << >>, duplicateTracker)
  IN  /\ ~ exited
      /\ fIn' = [actions |-> << action >>, tracker |-> duplicateTracker]
      /\ fOut' = result
      /\ fPc' = "done"
      /\ duplicateTracker' = MapPut(duplicateTracker, 1, result.userDuplicates)

\* the classifier returns a candidate it has not returned before
FilterNew ==
  /\ nextId <= MaxSignatures
  /\ FilterCall(PoolCandidate(nextId))
  /\ nextId' = nextId + 1
  /\ UNCHANGED << exited, now, ticks, messageBuffer, processingTimers, liveTimers,
                  flights, nextCleanup, drained, sinceDrain, sinceReset,
                  conversationHistory, groupTopicTracker, storeVars, decisionVars, groupVars,
                  selectVars, classifyVars, combineVars >>

\* the classifier returns its latest candidate once more
FilterRepeat ==
  /\ nextId > 1
  /\ FilterCall(PoolCandidate(nextId - 1))
  /\ UNCHANGED << exited, now, ticks, nextId, messageBuffer, processingTimers,
                  liveTimers, flights, nextCleanup, drained, sinceDrain, sinceReset,
                  conversationHistory, groupTopicTracker, storeVars, decisionVars, groupVars,
                  selectVars, classifyVars, combineVars >>

NextTracker == FilterNew \/ FilterRepeat \/ Sweep \/ Wait

SpecTracker == InitRuns /\ [][NextTracker]_vars

\* the signatures of user u
SignaturesOf(dt, u) == MapGet(dt, u, << >>)

-----------------------------------------------------------------------------
(* The topic check of one run against the context loaded from the table:     *)
(* SpecTopic                                                                 *)

MaxRows == 3                 \* rows of ai_actions for chat g

TopicDescriptions ==
  { << "send", "report", "bob", "back" >>, << "send", "report", "bob", "call" >> }

\* a persisted action of group chat g, raised for user userId
TopicRow(userId, type, description, createdAt) ==
  [action_id |-> << userId, createdAt, 0 >>, type |-> type, description |-> description,
   original_message |-> Message(0, "a1", GroupMemberName("a1"), "g", TRUE, FALSE,
                                FreshStamp(createdAt), description),
   user_id |-> userId, created_at |-> createdAt]

TopicRows ==
  { TopicRow(u, "task", d, c) :
      u \in Users, d \in TopicDescriptions,
      c \in { T0 - RECENT_DISCUSSION_MS, T0 - CLEANUP_INTERVAL_MS } }
    \cup { TopicRow(2, "note", << "send", "report", "bob", "back" >>,
                    T0 - CLEANUP_INTERVAL_MS) }

\* the tables: rows in the order of their insertion, each for a message of its own
TopicStores ==
  { [i \in DOMAIN f |-> [f[i] EXCEPT !.original_message.id = i,
                                      !.action_id = << f[i].user_id, f[i].created_at, i >>]] :
      f \in { r \in UNION { [1..n -> TopicRows] : n \in 0..MaxRows } :
                \A i, j \in DOMAIN r : i < j => r[i].created_at <= r[j].created_at } }

\* the runs: of group chat g by a1, one of them of two messages, and of the 1:1
\* chat with a1
TopicRuns ==
  { << Message(10, "a1", GroupMemberName("a1"), "g", TRUE, FALSE, FreshStamp(T0), body) >> :
      body \in { << "send", "the", "report", "bob", "back" >>,
                 << "send", "report", "bob" >>, << "to" >> } }
    \cup { << Message(10, "a1", GroupMemberName("a1"), "g", TRUE, FALSE, FreshStamp(T0),
                      << "send", "report" >>),
              Message(11, "a1", GroupMemberName("a1"), "g", TRUE, FALSE, FreshStamp(T0) + 1,
                      << "bob", "back" >>) >>,
           << Message(10, "a1", "Ann", "a1", FALSE, FALSE, FreshStamp(T0),
                      << "send", "the", "report", "bob", "back" >>) >> }

InitTopic ==
  /\ InitIdle
  /\ now = T0 /\ nextId = 1 /\ ticks = 0 /\ exited = FALSE
  /\ actionStatus = EmptyMap /\ internalItems = << >> /\ decisionLog = << >>
  /\ messageBuffer = EmptyMap /\ processingTimers = EmptyMap /\ liveTimers = {}
  /\ flights = {} /\ nextCleanup = T0 + CLEANUP_INTERVAL_MS
  /\ drained = << >> /\ sinceDrain = EmptyMap /\ sinceReset = EmptyMap
  /\ conversationHistory = EmptyMap /\ duplicateTracker = EmptyMap
  /\ groupTopicTracker = EmptyMap
  /\ emitted = << >> /\ notified = << >> /\ runLog = << >>
  /\ aiActions \in TopicStores

\* the run of user 1's flush: the context processGroupedMessages loads for a group
\* chat and the topic check of processMessageGroup on the combined message
TopicCheck ==
  \E run \in TopicRuns :
    LET combinedMessage == createCombinedMessage(run)
        groupTopicContext == IF run[1].isGroup
                               THEN loadGroupTopicContext(ChatIdOf(run[1]), now)
                               ELSE << >>
    IN  /\ fPc = "idle"
        /\ fIn' = [run |-> run, userId |-> 1]
        /\ fOut' = [context |-> groupTopicContext,
                    duplicate |-> /\ combinedMessage.isGroup
                                  /\ run[1].isGroup
                                  /\ checkGroupTopicDuplicate(combinedMessage,
                                        groupTopicContext, 1, now)]
        /\ fPc' = "done"
        /\ UNCHANGED << bufferVars, cacheVars, storeVars, decisionVars, groupVars, selectVars,
                        classifyVars, combineVars >>

NextTopic == TopicCheck

SpecTopic == InitTopic /\ [][NextTopic]_vars

\* the Jaccard index of two keyword lists, 0 when either is empty, is over 0.7
OverlapOver70(keywords1, keywords2) ==
  /\ keywords1 # << >>
  /\ keywords2 # << >>
  /\ Cardinality(Range(keywords1) \cap Range(keywords2)) * 10
       > 7 * Cardinality(Range(keywords1) \cup Range(keywords2))

\* a cluster that the claim's rule lets suppress the run of userId at time t
SuppressingCluster(cluster, body, userId, t) ==
  /\ OverlapOver70(extractTopicKeywords(body), extractTopicKeywords(cluster.description))
  /\ \/ userId \in Range(cluster.users)
     \/ /\ Cardinality(Range(cluster.users)) >= 2
        /\ Len(cluster.actions) >= 2
        /\ t - cluster.lastUpdate < 2 * 3600000

\* C24: a run of a group conversation is suppressed by the topic rule exactly when
\* a cluster of the loaded context overlaps its message over 0.7 and either holds
\* the user or holds two users and two actions and was updated less than 2 hours
\* ago; a run of a 1:1 conversation is never suppressed by it
C24_TopicRule ==
  fPc = "done" /\ "run" \in DOMAIN fIn =>
    /\ fIn.run[1].isGroup =>
         (fOut.duplicate <=>
            \E i \in DOMAIN fOut.context :
              SuppressingCluster(fOut.context[i], createCombinedMessage(fIn.run).body,
                                 fIn.userId, now))
    /\ ~ fIn.run[1].isGroup => ~ fOut.duplicate

\* C24: a run of two messages is suppressed although no cluster holds its user:
\* a cluster of two other users and two actions, updated an hour ago, overlaps it
C24_OthersDiscussion ==
  /\ fPc = "done" /\ "run" \in DOMAIN fIn
  /\ Len(fIn.run) = 2
  /\ fOut.duplicate
  /\ \A i \in DOMAIN fOut.context : fIn.userId \notin Range(fOut.context[i].users)

\* the keywords that updateGroupTopicTracker keys a cluster by
TopKeywords(description) == Take(extractTopicKeywords(description), 3)

\* the entry of a row in a cluster's action list
RowEntry(row) ==
  [description |-> row.description, userId |-> row.user_id, createdAt |-> row.created_at]

\* C25: two rows of the same type whose descriptions share their first three
\* keywords are in one cluster of the loaded context
C25_BucketedByTopThree ==
  fPc = "done" /\ "run" \in DOMAIN fIn /\ fIn.run[1].isGroup =>
    \A i, j \in DOMAIN aiActions :
      (/\ aiActions[i].type = aiActions[j].type
       /\ TopKeywords(aiActions[i].description) = TopKeywords(aiActions[j].description))
        => \E c \in DOMAIN fOut.context :
             /\ RowEntry(aiActions[i]) \in Range(fOut.context[c].actions)
             /\ RowEntry(aiActions[j]) \in Range(fOut.context[c].actions)

-----------------------------------------------------------------------------
(* The confidence floor on both paths of processMessageWithHistory, under    *)
(* SpecClassify                                                              *)

\* C26: what the gateway returns, from the AI call or from the keyword fallback,
\* is empty or one candidate whose confidence is at or above the floor 0.7
C26_FloorOnEveryPath ==
  kPc = "done" =>
    \/ kOut = << >>
    \/ Len(kOut) = 1 /\ kOut[1].confidence >= CONFIDENCE_FLOOR

\* C26 (for comparison): the result is empty or one candidate, at or above the
\* floor unless it is the fallback's note for a long message
C26_FloorButLongNote ==
  kPc = "done" =>
    \/ kOut = << >>
    \/ Len(kOut) = 1 /\ kOut[1].confidence >= CONFIDENCE_FLOOR
    \/ kIn.gateway.kind = "throws" /\ kOut = << LongNote >>

\* C26: the gateway call failed on a long message without keywords and the
\* fallback returned the note of confidence 0.6
C26_LongNoteReturned ==
  /\ kPc = "done"
  /\ kIn.gateway.kind = "throws"
  /\ BodyLength(kIn.message.body) > LONG_MESSAGE_CHARS
  /\ kOut = << LongNote >>
  /\ LongNote.confidence < CONFIDENCE_FLOOR

-----------------------------------------------------------------------------
(* The push notification that fails, under SpecFaults                        *)

\* the notification attempts that did not send anything
FailedPushes == { r \in DOMAIN notified : notified[r].outcome # "sent" }

\* the row, the event and the pending emit of the action of notification attempt n
RowOfPush(n) ==
  \E r \in DOMAIN aiActions :
    aiActions[r].user_id = n.userId /\ aiActions[r].original_message.id = n.originalMessage.id
EventOfPush(n) ==
  \E r \in DOMAIN emitted :
    emitted[r].userId = n.userId /\ emitted[r].originalMessage.id = n.originalMessage.id
EmitPending(n) ==
  \E f \in flights :
    /\ f.pc = "emit"
    /\ \E i \in DOMAIN f.pending :
         f.pending[i].userId = n.userId
           /\ f.pending[i].originalMessage.id = n.originalMessage.id

\* C27: when the push notification of a persisted action fails (no client, no
\* player id, lookup or delivery error) the action stays persisted and its
\* 'newAction' event is still emitted: the emit is the next step of its flush
C27_PushBestEffort ==
  /\ [] \A r \in FailedPushes :
          /\ RowOfPush(notified[r])
          /\ EventOfPush(notified[r]) \/ EmitPending(notified[r])
  /\ [][ \A f \in flights :
           (f.pc = "notify" /\ f \notin flights') =>
             /\ aiActions' = aiActions
             /\ \E g \in flights' : g.fid = f.fid /\ g.idx = f.idx /\ g.pc = "emit" ]_vars
  /\ [][ \A f \in flights :
           (f.pc = "emit" /\ f \notin flights') =>
             /\ aiActions' = aiActions
             /\ emitted' = emitted \o f.pending ]_vars

\* C27: the delivery of a notification failed, the lookup of another failed, and
\* both actions are persisted and emitted
C27_FailedPushEmitted ==
  \E r1, r2 \in FailedPushes :
    /\ notified[r1].outcome = "deliveryError"
    /\ notified[r2].outcome = "lookupError"
    /\ RowOfPush(notified[r1]) /\ EventOfPush(notified[r1])
    /\ RowOfPush(notified[r2]) /\ EventOfPush(notified[r2])

-----------------------------------------------------------------------------
(* Two sessions in group chat g receive the same messages and their flushes  *)
(* run side by side: SpecRace                                                *)

MaxSharedDeliveries == 2     \* deliveries: each message to session 1, then to session 2

\* the message that a1 sends to the group, as each session receives it
SharedMessage(id) ==
  Message(id, "a1", GroupMemberName("a1"), "g", TRUE, FALSE, FreshStamp(T0) + id,
          << "send", "the", "report" >>)

DeliverShared ==
  /\ Idle
  /\ nextId <= MaxSharedDeliveries
  /\ flights = {}
  /\ \A d \in DueTimes : d > now
  /\ OnMessage(((nextId - 1) % 2) + 1, SharedMessage(((nextId - 1) \div 2) + 1))

\* the INSERT returns; the database is up, so only the unique index refuses a row
InsertRow == Idle /\ \E f \in flights : Inserted(f, FALSE)

NextRace ==
  DeliverShared \/ Expire \/ Load \/ Check \/ ClassifyAny \/ InsertRow \/ Notify \/ Emit
    \/ Jump

SpecRace == InitRuns /\ [][NextRace]_vars

\* the columns of the unique index
IndexKey(row) == << row.original_message.id, row.type, row.description >>

\* C28: the store never holds two actions with the same original message id, type
\* and description; an insert that would make two fails, and neither an event nor
\* a notification is emitted for it, also when two flushes are both past the
\* existing-action check
C28_UniquenessBackstop ==
  /\ [] /\ \A i, j \in DOMAIN aiActions :
            IndexKey(aiActions[i]) = IndexKey(aiActions[j]) => i = j
        /\ \A r \in DOMAIN emitted :
            \E i \in DOMAIN aiActions :
              /\ aiActions[i].user_id = emitted[r].userId
              /\ aiActions[i].original_message.id = emitted[r].originalMessage.id
        /\ \A r \in DOMAIN notified : RowOfPush(notified[r])
  /\ [][ \A f \in flights :
           (/\ f.pc = "save"
            /\ f \notin flights'
            /\ \E i \in DOMAIN aiActions :
                 IndexKey(aiActions[i]) =
                   << createCombinedMessage(RunOf(f)).id, f.filtered[1].type,
                      f.filtered[1].description >>)
             => /\ aiActions' = aiActions
                /\ notified' = notified
                /\ emitted' = emitted
                /\ \A g \in flights' : g.fid = f.fid => g.pc \notin { "notify", "emit" } ]_vars

\* C28: both sessions passed the existing-action check for message 1 and accepted
\* the same action; one row is stored, and the session whose insert failed has
\* neither an event nor a notification
C28_RaceLostInsert ==
  \E i, j \in DOMAIN runLog :
    /\ runLog[i].id = 1 /\ runLog[j].id = 1
    /\ runLog[i].user # runLog[j].user
    /\ runLog[i].verdict = "accepted" /\ runLog[j].verdict = "accepted"
    /\ Persisted(runLog[i]) /\ Emitted(runLog[i]) /\ Notified(runLog[i])
    /\ flights = {}
    /\ ~ Persisted(runLog[j]) /\ ~ Emitted(runLog[j]) /\ ~ Notified(runLog[j])

-----------------------------------------------------------------------------
(* One session whose transport delivers a message of a 1:1 chat again, and   *)
(* whose existing-action query may fail: SpecExisting                        *)

MaxRedeliveries == 3         \* deliveries in one behaviour

\* message 1 of the 1:1 chat with a1, the same at every delivery
RepeatedMessage ==
  Message(1, "a1", "Ann", "Ann", FALSE, FALSE, FreshStamp(T0),
          << "send", "the", "report" >>)

\* a message arrives, for the first time or again, also while a flush is running,
\* once the delivery before it has been flushed
DeliverAgain ==
  /\ Idle
  /\ nextId <= MaxRedeliveries
  /\ liveTimers = {}
  /\ \A d \in DueTimes : d > now
  /\ OnMessage(1, RepeatedMessage)

\* processMessageGroup up to the classifier call; the outcome of the
\* existing-action query is kept in fIn
CheckQuery ==
  /\ ~ exited
  /\ \E f \in flights : \E outcome \in QueryOutcomes :
       /\ PreCheckWith(f, ExistingActions(RunOf(f), f.user, outcome))
       /\ fIn' = [fid |-> f.fid, idx |-> f.idx, outcome |-> outcome]
  /\ UNCHANGED << fOut, fPc, decisionVars, groupVars, selectVars, classifyVars, combineVars >>

\* the clock runs to the next timer, whether or not a flush is awaiting a reply
Advance ==
  /\ Idle
  /\ liveTimers # {}
  /\ Elapse

NextExisting ==
  DeliverAgain \/ Expire \/ Load \/ CheckQuery \/ Classify \/ Save \/ Advance

SpecExisting == InitRuns /\ [][NextExisting]_vars

\* a message of f's current run has a persisted action for f's user
AlreadyProcessed(f) ==
  \E r \in DOMAIN aiActions :
    /\ aiActions[r].user_id = f.user
    /\ \E i \in DOMAIN RunOf(f) : aiActions[r].original_message.id = RunOf(f)[i].id

\* C29: a run one of whose message ids already has a persisted action for the
\* user is skipped, with no classifier call and no new action, when the query
\* answers; when the query fails the check counts as finding nothing and the run
\* goes on to the classifier call, as does a run without a persisted action
C29_SkipAndDegrade ==
  [][ \A f \in flights :
        (f.pc = "run" /\ f \notin flights') =>
          IF fIn'.outcome = "rows" /\ AlreadyProcessed(f)
            THEN /\ aiActions' = aiActions /\ emitted' = emitted
                 /\ \A g \in flights' :
                      g.fid = f.fid => g.idx = f.idx + 1 /\ g.pc = "run"
                 /\ f.idx = Len(f.groups) => \A g \in flights' : g.fid # f.fid
                 /\ f.idx < Len(f.groups) => \E g \in flights' : g.fid = f.fid
            ELSE \E g \in flights' :
                   g.fid = f.fid /\ g.idx = f.idx /\ g.pc = "classify" ]_vars

\* C29: message 1 has a persisted action; its second delivery was skipped when the
\* query answered, and a further delivery went to the classifier when it failed
C29_SkippedThenDegraded ==
  /\ \E r \in DOMAIN aiActions : aiActions[r].original_message.id = 1
  /\ \E i, j \in DOMAIN runLog :
       /\ runLog[i].id = 1 /\ runLog[i].verdict = "existing"
       /\ runLog[j].id = 1 /\ j > i
       /\ runLog[j].verdict \notin { "existing", "topic" }
       /\ "outcome" \in DOMAIN fIn /\ fIn.outcome = "error" /\ fIn.fid = runLog[j].fid

-----------------------------------------------------------------------------
(* The sweep's buffer and history clauses, considered under Spec: messages   *)
(* reach a buffer with a sending time of now or of more than an hour ago     *)

\* the oldest message of the buffer was sent more than the staleness threshold ago
OldestIsStale(messages, t) ==
  \E i \in DOMAIN messages : (t - messages[i].timestamp * 1000) > BUFFER_STALE_MS

\* C30 as stated: after a maintenance sweep no buffer remains whose oldest message
\* (smallest timestamp) is older than the staleness threshold (1 h), and no
\* conversation-history entry older than the memory window (24 h) remains; buffers
\* and entries younger than their thresholds are left unchanged.
C30_SweepEvictsStale ==
  [][ nextCleanup' # nextCleanup =>
        /\ \A u \in DOMAIN messageBuffer' :
             \A c \in DOMAIN messageBuffer'[u] :
               ~ OldestIsStale(messageBuffer'[u][c], now)
        /\ \A k \in DOMAIN conversationHistory' :
             \A i \in DOMAIN conversationHistory'[k] :
               (now - conversationHistory'[k][i].createdAt) <= CONVERSATION_MEMORY_MS
        /\ \A u \in DOMAIN messageBuffer :
             \A c \in DOMAIN messageBuffer[u] :
               ~ OldestIsStale(messageBuffer[u][c], now) =>
                 /\ HasBuffer(messageBuffer', u, c)
                 /\ messageBuffer'[u][c] = messageBuffer[u][c]
        /\ \A k \in DOMAIN conversationHistory :
             k \in DOMAIN conversationHistory'
             /\ SelectSeq(conversationHistory[k],
                          LAMBDA item : (now - item.createdAt) < CONVERSATION_MEMORY_MS)
                = SelectSeq(conversationHistory'[k],
                            LAMBDA item : (now - item.createdAt) < CONVERSATION_MEMORY_MS) ]_vars

\* a buffer whose first message is recent holds a later-ingested message sent more
\* than an hour ago, and a sweep has run at this time, before the buffer's timer is due
C30_StaleBehindFresh ==
  /\ nextCleanup = now + CLEANUP_INTERVAL_MS
  /\ \A timer \in liveTimers : timer.deadline > now
  /\ \E u \in DOMAIN messageBuffer :
       \E c \in DOMAIN messageBuffer[u] :
         /\ Len(messageBuffer[u][c]) > 1
         /\ (now - messageBuffer[u][c][1].timestamp * 1000) <= BUFFER_STALE_MS
         /\ OldestIsStale(messageBuffer[u][c], now)

-----------------------------------------------------------------------------
(* One session with two 1:1 chats whose flushes run side by side and share   *)
(* the user's signature set: SpecShared                                      *)

MaxSideBySide == 2           \* deliveries: message k goes to chat a1 or a2 in turn

\* message id of the 1:1 chat with contact a1 (odd ids) or a2 (even ids)
SideMessage(id, t) ==
  LET contact == "a" \o ToString(((id - 1) % 2) + 1)
      name == IF contact = "a1" THEN "Ann" ELSE "Bob"
  IN  Message(id, contact, name, name, FALSE, FALSE, FreshStamp(t),
              << "send", "the", "report" >>)

\* messages arrive in the two chats while no flush is being processed
DeliverSide ==
  /\ Idle
  /\ nextId <= MaxSideBySide
  /\ flights = {}
  /\ \A d \in DueTimes : d > now
  /\ OnMessage(1, SideMessage(nextId, now))

NextShared == DeliverSide \/ Expire \/ Load \/ Check \/ ClassifyAny \/ Save \/ Jump

SpecShared == InitRuns /\ [][NextShared]_vars

\* the signature set of user u
SignatureSet(dt, u) == Range(MapGet(dt, u, << >>))

\* C31: a signature is tested against the user's set and inserted in one turn (a
\* run that accepts a candidate finds its signature absent and leaves it present
\* in the same step), so of two runs of one user in different conversations that
\* are processed side by side and yield other-originated candidates with the same
\* signature at most one is accepted, however their steps interleave
C31_TestAndInsertAtomic ==
  /\ [] \A i, j \in DOMAIN runLog :
          (/\ runLog[i].user = runLog[j].user
           /\ runLog[i].chatId # runLog[j].chatId
           /\ ~ runLog[i].fromMe /\ ~ runLog[j].fromMe
           /\ runLog[i].verdict = "accepted" /\ runLog[j].verdict = "accepted")
            => runLog[i].signature # runLog[j].signature
  /\ [][ \A f \in flights :
           (f.pc = "classify" /\ \E g \in flights' : g.fid = f.fid /\ g.pc = "save")
             => \E g \in flights' :
                  /\ g.fid = f.fid
                  /\ createActionSignature(g.filtered[1])
                       \notin SignatureSet(duplicateTracker, f.user)
                  /\ createActionSignature(g.filtered[1])
                       \in SignatureSet(duplicateTracker', f.user) ]_vars

\* C31: the flush of one chat has accepted a candidate and is still awaiting its
\* insert while the flush of the other chat, which was awaiting the classifier
\* at the same time, had its candidate of the same signature filtered
C31_OneOfTwoAccepted ==
  \E f \in flights :
    /\ f.pc = "save"
    /\ \E i, j \in DOMAIN runLog :
         /\ runLog[i].fid = f.fid /\ runLog[i].verdict = "accepted"
         /\ runLog[j].user = f.user /\ runLog[j].chatId # f.chatId
         /\ runLog[j].verdict = "filtered" /\ runLog[j].known
         /\ runLog[j].signature = runLog[i].signature
         /\ j < i

-----------------------------------------------------------------------------
(* The history loaded for a run, under SpecDirect: the 1:1 chat with Sam,    *)
(* whose messages come from contact s1 in the chat named Sam                 *)

\* the persisted actions of f's user in f's conversation and of the sender class
\* of f's current run, not older than the memory window, newest first, five at most
SenderScopedHistory(f) ==
  LET wanted(row) ==
        /\ row.user_id = f.user
        /\ ChatIdOf(row.original_message) = f.chatId
        /\ row.original_message.fromMe = RunOf(f)[1].fromMe
        /\ row.created_at > now - CONVERSATION_MEMORY_MS
      rows == Take(NewestFirst(SelectSeq(aiActions, wanted)), SENDER_HISTORY_LIMIT)
  IN  [i \in DOMAIN rows |-> HistoryEntry(rows[i])]

\* C32 as stated: the history loaded for a run holds exactly the (up to 5 most
\* recent, within 24 h) persisted actions of the user that belong to the run's
\* conversation key and sender class; for a 1:1 conversation, whose key is the
\* sender id, the earlier actions of that conversation are included.
C32_HistoryOfConversation ==
  [][ \A f \in flights :
        \A g \in flights' :
          (f.pc = "run" /\ g.fid = f.fid /\ g.idx = f.idx /\ g.pc = "classify")
            => g.history = SenderScopedHistory(f) ]_vars

\* a run of the 1:1 chat goes to the classifier with an empty history although
\* an action of an earlier run of the chat is persisted
C32_DirectHistoryEmpty ==
  \E f \in flights :
    /\ f.pc = "classify"
    /\ ~ f.batch[1].isGroup
    /\ f.history = << >>
    /\ \E r \in DOMAIN aiActions :
         /\ aiActions[r].user_id = f.user
         /\ aiActions[r].original_message.from = f.chatId
         /\ aiActions[r].original_message.fromMe = RunOf(f)[1].fromMe

-----------------------------------------------------------------------------
(* The buffer of the 1:1 chat with s1 under fair scheduling: a due timer     *)
(* fires, a due sweep runs, an awaited call returns, and time passes as long *)
(* as a timer is pending: SpecLive                                           *)

\* time passes, up to the next timer deadline or sweep
Pass ==
  /\ Idle
  /\ liveTimers # {}
  /\ \A d \in DueTimes : d > now
  /\ now' = CHOOSE x \in DueTimes : \A y \in DueTimes : x <= y
  /\ UNCHANGED << exited, ticks, nextId, messageBuffer, processingTimers, liveTimers,
                  flights, nextCleanup, drained, sinceDrain, sinceReset, cacheVars,
                  storeVars >>

\* a message arrives once the flushes before it have returned
IngestNext == flights = {} /\ Ingest

NextLive == IngestNext \/ Expire \/ RunReturns \/ Sweep \/ Pass

\* ENABLED <<Expire>>_vars: a timer is due (its callback removes it from liveTimers)
TimerDue == ~ exited /\ \E t \in liveTimers : t.deadline <= now

\* WF_vars(Expire), with its ENABLED written as the state predicate it equals
FairExpire == []<>(~ TimerDue) \/ []<><<Expire>>_vars

\* setTimeout and setInterval callbacks run once they are due, awaited calls return
SpecLive ==
  /\ Init /\ [][NextLive]_vars
  /\ FairExpire /\ WF_vars(Sweep) /\ WF_vars(RunReturns) /\ WF_vars(Pass)

\* message id has been accepted by processMessage / handed over in a flushed batch
Ingested(id) == nextId > id
Flushed(id) == id \in Range(drained)
InBuffer(id) == \E k \in BufferedKeys : id \in Range(Ids(Buffered(k)))

\* message id was in a buffer that a sweep deleted, and its key has not been
\* flushed since
SweptAway(id) ==
  \E k \in DOMAIN sinceDrain :
    /\ id \in Range(sinceDrain[k])
    /\ id \notin Range(MapGet(sinceReset, k, << >>))

\* C33 as stated: under fair timer firing every message accepted by ingest is
\* eventually handed to the grouping pipeline in exactly one flushed batch,
\* whatever the interleaving of ingests, timer expiries, forced flushes and
\* sweeps (a sweep never discards a buffered message that has not been flushed).
C33_NoMessageLost ==
  /\ [] NoDuplicates(drained)
  /\ \A id \in 1..MaxMsgs : Ingested(id) ~> Flushed(id)
  /\ [][ \A k \in BufferedKeys :
           \A i \in DOMAIN Buffered(k) :
             \/ Buffered(k)[i].id \in Range(drained')
             \/ /\ HasBuffer(messageBuffer', k[1], k[2])
                /\ Buffered(k)[i] \in Range(BufferOf(messageBuffer', k[1], k[2])) ]_vars

\* C33 amended: under fair timer firing every message accepted by ingest is
\* eventually handed to the grouping pipeline in exactly one flushed batch, unless
\* a maintenance sweep deletes its buffer before the flush: an accepted message is
\* buffered or flushed at once, a buffered message is eventually flushed or swept,
\* a sweep deletes a buffer only when the buffer's first message was sent more
\* than an hour ago, and a message leaves a buffer in no other way.
C33_FlushedUnlessSwept ==
  /\ [] NoDuplicates(drained)
  /\ \A id \in 1..MaxMsgs : InBuffer(id) ~> (Flushed(id) \/ SweptAway(id))
  /\ [][ nextId' # nextId =>
           \/ nextId \in Range(drained')
           \/ \E u \in DOMAIN messageBuffer' :
                \E c \in DOMAIN messageBuffer'[u] :
                  nextId \in Range(Ids(messageBuffer'[u][c])) ]_vars
  /\ [][ \A k \in BufferedKeys :
           \A i \in DOMAIN Buffered(k) :
             \/ Buffered(k)[i].id \in Range(drained')
             \/ /\ HasBuffer(messageBuffer', k[1], k[2])
                /\ Buffered(k)[i] \in Range(BufferOf(messageBuffer', k[1], k[2]))
             \/ /\ nextCleanup' # nextCleanup
                /\ (now - Buffered(k)[1].timestamp * 1000) > BUFFER_STALE_MS ]_vars

\* a message sent more than an hour ago was buffered, a sweep deleted its buffer,
\* the buffer's timer has fired on nothing, and an earlier message was flushed
C33_LateMessageSwept ==
  /\ liveTimers = {} /\ flights = {}
  /\ \E id \in 1..MaxMsgs :
       /\ Ingested(id) /\ ~ Flushed(id) /\ SweptAway(id)
       /\ \A k \in BufferedKeys : id \notin Range(Ids(Buffered(k)))
       /\ \E other \in 1..MaxMsgs : other < id /\ Flushed(other)

-----------------------------------------------------------------------------
(* The delay timers of a key, under Spec                                     *)

\* C34: every (user, conversation) key has at most one live delay timer; a
\* non-empty buffer always has a live timer pending for its key; a forced flush
\* leaves no live timer for the key it drained
C34_TimerInvariant ==
  /\ [] \A t1, t2 \in liveTimers :
          (t1.user = t2.user /\ t1.chat = t2.chat) => t1 = t2
  /\ [] \A k \in BufferedKeys : Len(Buffered(k)) > 0 => TimersOf(k) # {}
  /\ [][ \A f \in flights' :
           (f.forced /\ \A g \in flights : g.fid # f.fid)
             => \A t \in liveTimers' : ~ (t.user = f.user /\ t.chat = f.chatId) ]_vars

\* the timer of a key was cleared and armed again by later messages, and the
\* buffer, now holding several messages, has that one timer
C34_OneTimerRearmed ==
  \E k \in BufferedKeys :
    /\ Len(Buffered(k)) >= 2
    /\ Cardinality(TimersOf(k)) = 1
    /\ \A t \in TimersOf(k) : t.id = Buffered(k)[Len(Buffered(k))].id
    /\ \E f \in flights : f.user = k[1] /\ f.chatId = k[2]

-----------------------------------------------------------------------------
(* The records an accepted action leaves in memory and its row in the store, *)
(* under SpecFaults, where the database may refuse an insert                 *)

\* user u has a persisted action with this signature / type and description
StoredSignature(u, signature) ==
  \E r \in DOMAIN aiActions :
    aiActions[r].user_id = u /\ createActionSignature(aiActions[r]) = signature
StoredAction(u, type, description) ==
  \E r \in DOMAIN aiActions :
    /\ aiActions[r].user_id = u
    /\ aiActions[r].type = type /\ aiActions[r].description = description

\* a flush of user u has accepted an action with this signature and its insert
\* has not returned yet
AwaitingInsert(u, signature) ==
  \E f \in flights :
    /\ f.user = u /\ f.pc = "save"
    /\ \E i \in DOMAIN f.filtered : createActionSignature(f.filtered[i]) = signature

\* C35 as stated: a signature stays in a user's signature set only if the action
\* was persisted; when the insert of an accepted action fails, its signature, its
\* topic-cluster record and its history-cache record are not left behind, so no
\* later other-originated action is suppressed as the duplicate of an action that
\* was never stored.
C35_RecordsOnlyOfStoredActions ==
  /\ \A u \in DOMAIN duplicateTracker :
       \A signature \in Range(duplicateTracker[u]) :
         StoredSignature(u, signature) \/ AwaitingInsert(u, signature)
  /\ \A k \in DOMAIN conversationHistory :
       \A i \in DOMAIN conversationHistory[k] :
         StoredAction(k[1], conversationHistory[k][i].type,
                      conversationHistory[k][i].description)
  /\ \A c \in DOMAIN groupTopicTracker :
       \A key \in DOMAIN groupTopicTracker[c] :
         \A i \in DOMAIN groupTopicTracker[c][key].actions :
           StoredAction(groupTopicTracker[c][key].actions[i].userId,
                        groupTopicTracker[c][key].type,
                        groupTopicTracker[c][key].actions[i].description)
  /\ \A i \in DOMAIN runLog :
       (runLog[i].verdict = "filtered" /\ runLog[i].known /\ ~ runLog[i].fromMe)
         => \/ StoredSignature(runLog[i].user, runLog[i].signature)
            \/ AwaitingInsert(runLog[i].user, runLog[i].signature)

\* the insert of an accepted action failed and a later run's candidate with the
\* same signature was filtered as a duplicate, although no such action is stored
C35_SuppressedByUnstored ==
  \E i \in InsertFailed : \E j \in DOMAIN runLog :
    /\ j > i
    /\ runLog[j].user = runLog[i].user
    /\ runLog[j].verdict = "filtered" /\ runLog[j].known /\ ~ runLog[j].fromMe
    /\ runLog[j].signature = runLog[i].signature
    /\ ~ StoredSignature(runLog[j].user, runLog[j].signature)
    /\ flights = {}

-----------------------------------------------------------------------------
(* The topic context of the later runs of a batch, under SpecRuns            *)

\* the action persisted for the run of log entry e overlaps the message of the
\* run of log entry l over the topic threshold
AcceptedOverlaps(e, l) ==
  \E r \in DOMAIN aiActions :
    /\ aiActions[r].user_id = e.user
    /\ aiActions[r].original_message.id = e.id
    /\ Exceeds(calculateKeywordOverlap(
                 extractTopicKeywords(createCombinedMessage(l.run).body),
                 extractTopicKeywords(aiActions[r].description)),
               GROUP_TOPIC_SIMILARITY_THRESHOLD)

\* C36 as stated: the topic context consulted for a run of a group conversation
\* reflects every action accepted for the earlier runs of the same batch: a later
\* run of the batch whose message overlaps > 0.7 with the action accepted for an
\* earlier run (same user) is suppressed as a topic duplicate.
C36_LaterRunSeesEarlierAction ==
  \A i, j \in DOMAIN runLog :
    (/\ i < j
     /\ runLog[i].fid = runLog[j].fid
     /\ runLog[i].isGroup
     /\ runLog[i].verdict = "accepted"
     /\ AcceptedOverlaps(runLog[i], runLog[j]))
      => runLog[j].verdict = "topic"

\* the second run of a batch went to the classifier although the action of the
\* batch's first run, which its message overlaps, had been persisted and the
\* in-memory tracker holds its cluster
C36_StaleContext ==
  \E i, j \in DOMAIN runLog :
    /\ i < j
    /\ runLog[i].fid = runLog[j].fid
    /\ runLog[i].isGroup
    /\ runLog[i].verdict = "accepted"
    /\ AcceptedOverlaps(runLog[i], runLog[j])
    /\ runLog[j].verdict \in { "none", "filtered", "accepted" }
    /\ \E key \in DOMAIN groupTopicTracker[runLog[j].chatId] :
         runLog[j].user \in groupTopicTracker[runLog[j].chatId][key].users

-----------------------------------------------------------------------------
(* One session in group chat g whose runs are skipped or yield no candidate: *)
(* a message may be delivered again, a later message may repeat the topic of *)
(* a persisted action, the gateway may return nothing: SpecSkip              *)

MaxSkipDeliveries == 4       \* deliveries in one behaviour

\* message id of group chat g, sent by a1, the same at every delivery
SkipMessage(id) ==
  Message(id, "a1", GroupMemberName("a1"), "g", TRUE, FALSE, FreshStamp(T0),
          << "send", "the", "report" >>)

\* message 1 or 2 arrives, for the first time or again, once the delivery before
\* it has been flushed
DeliverSkip ==
  /\ Idle
  /\ nextId <= MaxSkipDeliveries
  /\ liveTimers = {}
  /\ \A d \in DueTimes : d > now
  /\ \E id \in 1..2 : OnMessage(1, SkipMessage(id))

\* a candidate below the confidence floor, which the gateway's selection drops
Unsure == [type |-> "task", description |-> << "send", "report" >>, confidence |-> 50]
SkipReplies == ClassifierReplies \cup { << Unsure >> }

\* the classifier call returns; the reply is kept in fIn
ClassifyReply ==
  /\ ~ exited
  /\ \E f \in flights : \E reply \in SkipReplies :
       /\ Classified(f, reply)
       /\ fIn' = [fid |-> f.fid, idx |-> f.idx, reply |-> reply]
  /\ UNCHANGED << fOut, fPc, decisionVars, groupVars, selectVars, classifyVars, combineVars >>

NextSkip == DeliverSkip \/ Expire \/ Load \/ Check \/ ClassifyReply \/ Save \/ Jump

SpecSkip == InitRuns /\ [][NextSkip]_vars

\* flight f leaves its current run in this step without going to the classifier
SkippedBeforeClassifier(f) ==
  /\ f.pc = "run"
  /\ ~ \E g \in flights' : g.fid = f.fid /\ g.idx = f.idx

\* the classifier call of f's current run returns in this step with no candidate
\* above the floor
NoCandidateReturned(f) ==
  /\ f.pc = "classify"
  /\ f \notin flights'
  /\ fIn'.fid = f.fid /\ fIn'.idx = f.idx
  /\ SelectBest(fIn'.reply) = << >>

\* C37: a run that is skipped before the classifier call (a message of it already
\* has an action, or it is a topic duplicate) or for which the gateway returns no
\* candidate leaves the user's signature set, the in-memory topic clusters, the
\* conversation-history cache and the store as they are and emits no event
C37_SkippedRunChangesNothing ==
  [][ \A f \in flights :
        (SkippedBeforeClassifier(f) \/ NoCandidateReturned(f))
          => /\ duplicateTracker' = duplicateTracker
             /\ groupTopicTracker' = groupTopicTracker
             /\ conversationHistory' = conversationHistory
             /\ aiActions' = aiActions
             /\ emitted' = emitted /\ notified' = notified ]_vars

\* with an action persisted and its records in the caches, one run was skipped for
\* its already processed message, one as a topic duplicate, and for one the
\* gateway returned nothing
C37_AllThreeSkips ==
  /\ aiActions # << >>
  /\ duplicateTracker # EmptyMap /\ conversationHistory # EmptyMap
  /\ groupTopicTracker # EmptyMap
  /\ \E i, j, k \in DOMAIN runLog :
       /\ runLog[i].verdict = "existing"
       /\ runLog[j].verdict = "topic"
       /\ runLog[k].verdict = "none"


-----------------------------------------------------------------------------
(* The decision interface of the server: one session in the 1:1 chat with    *)
(* Sam, whose persisted actions are approved or rejected over HTTP:          *)
(* SpecDecide                                                                *)

MaxDecideDeliveries == 1     \* messages delivered in one behaviour
MaxRequests == 2             \* approve and reject requests in one behaviour

\* a message of Sam's
DecideMessage(id, t) ==
  Message(id, "s1", "Sam", "Sam", FALSE, FALSE, FreshStamp(t), << "send", "the", "report" >>)

DeliverDecide ==
  /\ Idle
  /\ nextId <= MaxDecideDeliveries
  /\ liveTimers = {}
  /\ \A d \in DueTimes : d > now
  /\ OnMessage(1, DecideMessage(nextId, now))

\* ai_actions.status: INSERT names no status, so a row no UPDATE has written has the
\* column default
StatusOf(actionId) == MapGet(actionStatus, actionId, "pending")

\* SELECT * FROM ai_actions WHERE action_id = $1 AND user_id = $2
ActionRows(actionId, userId) ==
  SelectSeq(aiActions, LAMBDA row : row.action_id = actionId /\ row.user_id = userId)

\* UPDATE ai_actions SET status = $1 WHERE action_id = $2 AND user_id = $3
UpdateStatus(status, actionId, userId) ==
  IF Len(ActionRows(actionId, userId)) = 0 THEN actionStatus
  ELSE MapPut(actionStatus, actionId, status)

\* the switch of createInternalItemFromAction: the table the item goes to
InternalTable(actionType) ==
  CASE actionType = "reminder" -> "internal_reminders"
    [] actionType = "event" -> "internal_events"
    [] actionType = "task" -> "internal_tasks"
    [] actionType \in { "contact", "communication" } -> "internal_contacts"
    [] actionType = "issue" -> "internal_issues"
    [] OTHER -> "internal_notes"

\* the row createInternalItemFromAction inserts
createInternalItemFromAction(action, messageData, userId) ==
  [table |-> InternalTable(action.type), action_id |-> action.actionId,
   content |-> messageData.body, user_id |-> userId]

\* the tokens a request may carry: none (0), the session's user, another user
Tokens == 0..2
\* an id no row has
NoSuchAction == << 0, 0, 0 >>
ActionIds == { aiActions[r].action_id : r \in DOMAIN aiActions } \cup { NoSuchAction }
\* the database answers every query, fails the item's INSERT, or fails every query
DbOutcomes == { "up", "itemFails", "down" }

Answer(request, actionId, token, code, event) ==
  decisionLog' = Append(decisionLog, [request |-> request, actionId |-> actionId,
                                      userId |-> token, code |-> code, event |-> event])

\* POST /api/actions/:actionId/approve. Its awaits (SELECT, UPDATE, the item's
\* INSERT) are taken in one step: a request served between two of them finds the
\* tables as it would find them before or after this one, and no query reads what
\* another request's later query depends on.
ApproveAction(actionId, token, db, connected) ==
  LET rows == ActionRows(actionId, token)
      action == rows[1]
      actionData == [actionId |-> action.action_id, type |-> action.type,
                     description |-> action.description]
      messageData == [body |-> action.original_message.body,
                      fromName |-> action.original_message.fromName]
  IN  IF token = 0
        THEN Answer("approve", actionId, token, 401, FALSE)
               /\ UNCHANGED << actionStatus, internalItems >>
      ELSE IF db = "down"
        THEN Answer("approve", actionId, token, 500, FALSE)
               /\ UNCHANGED << actionStatus, internalItems >>
      ELSE IF Len(rows) = 0
        THEN Answer("approve", actionId, token, 404, FALSE)
               /\ UNCHANGED << actionStatus, internalItems >>
      ELSE /\ actionStatus' = UpdateStatus("approved", actionId, token)
           /\ internalItems' =
                IF db = "itemFails" THEN internalItems
                ELSE Append(internalItems,
                            createInternalItemFromAction(actionData, messageData, token))
           /\ Answer("approve", actionId, token, 200, connected)

\* POST /api/actions/:actionId/reject
RejectAction(actionId, token, db, connected) ==
  IF token = 0
    THEN Answer("reject", actionId, token, 401, FALSE)
           /\ UNCHANGED << actionStatus, internalItems >>
  ELSE IF db = "down"
    THEN Answer("reject", actionId, token, 500, FALSE)
           /\ UNCHANGED << actionStatus, internalItems >>
  ELSE /\ actionStatus' = UpdateStatus("rejected", actionId, token)
       /\ Answer("reject", actionId, token, 200, connected)
       /\ UNCHANGED internalItems

Serving ==
  /\ ~ exited
  /\ Len(decisionLog) < MaxRequests
  /\ UNCHANGED << bufferVars, cacheVars, storeVars, groupVars, selectVars, classifyVars,
                  combineVars, callVars >>

Approve ==
  /\ Serving
  /\ \E actionId \in ActionIds, token \in Tokens, db \in DbOutcomes, connected \in BOOLEAN :
       ApproveAction(actionId, token, db, connected)

Reject ==
  /\ Serving
  /\ \E actionId \in ActionIds, token \in Tokens, db \in DbOutcomes, connected \in BOOLEAN :
       RejectAction(actionId, token, db, connected)

NextDecide ==
  DeliverDecide \/ Expire \/ Load \/ Check \/ Classify \/ Save \/ Jump \/ Approve \/ Reject

SpecDecide == InitRuns /\ [][NextDecide]_vars

\* the internal items made for action actionId
ItemsOf(actionId) == SelectSeq(internalItems, LAMBDA item : item.action_id = actionId)

\* the ids of the persisted actions
PersistedIds(rows) == { rows[r].action_id : r \in DOMAIN rows }

\* C38: a persisted action starts as pending and its status is moved only by an
\* approve or a reject request; a decided action (approved or rejected) keeps its
\* status whatever request follows; no action ever has more than one internal
\* item, and only an approved action has one
C38_DecisionLifecycle ==
  /\ [][ /\ \A id \in PersistedIds(aiActions') \ PersistedIds(aiActions) :
              StatusOf(id)' = "pending"
         /\ \A id \in PersistedIds(aiActions) :
              /\ StatusOf(id)' # StatusOf(id) => Len(decisionLog') > Len(decisionLog)
              /\ StatusOf(id) # "pending" => StatusOf(id)' = StatusOf(id)
         /\ \A id \in PersistedIds(aiActions) :
              Len(ItemsOf(id)') > Len(ItemsOf(id))
                => StatusOf(id) = "pending" /\ StatusOf(id)' = "approved" ]_vars
  /\ [] \A id \in PersistedIds(aiActions) :
          /\ Len(ItemsOf(id)) <= 1
          /\ Len(ItemsOf(id)) = 1 => StatusOf(id) = "approved"

\* the approve request was answered twice for one action and the action has two
\* internal items
C38_ApprovedTwice ==
  \E id \in PersistedIds(aiActions) :
    /\ Len(ItemsOf(id)) = 2
    /\ \E i, j \in DOMAIN decisionLog :
         /\ i < j
         /\ decisionLog[i] = [request |-> "approve", actionId |-> id, userId |-> 1,
                              code |-> 200, event |-> TRUE]
         /\ decisionLog[j] = decisionLog[i]

\* a rejected action was approved afterwards and has an internal item
C38_ApprovedAfterReject ==
  \E id \in PersistedIds(aiActions) :
    /\ StatusOf(id) = "approved" /\ Len(ItemsOf(id)) = 1
    /\ Len(decisionLog) = 2
    /\ decisionLog[1].request = "reject" /\ decisionLog[1].code = 200
    /\ decisionLog[1].actionId = id /\ decisionLog[1].userId = 1
    /\ decisionLog[2].request = "approve" /\ decisionLog[2].code = 200
    /\ decisionLog[2].actionId = id

\* an approved action was rejected afterwards and keeps its internal item
C38_RejectedAfterApprove ==
  \E id \in PersistedIds(aiActions) :
    /\ StatusOf(id) = "rejected" /\ Len(ItemsOf(id)) = 1

=============================================================================
